---- MODULE Spec2Model ----
(***************************************************************************)
(* A model of the Golden Agents / Montias reconciliation scripts:         *)
(*   src/matching.py     the record linkage engine and the linkset emitter *)
(*   src/convert.py      graph builder, dialect A (Getty, first version)   *)
(*   src/convertGPI.py   graph builder, dialect A (Getty Provenance Index) *)
(*   src/convertFrick.py graph builder, dialect B (Frick / Montias)        *)
(*                                                                         *)
(* Python strings on which the code works character by character are       *)
(* sequences of one-character strings; strings the code only compares or   *)
(* copies in the linkage engine are TLA+ strings.                          *)
(***************************************************************************)
EXTENDS Integers, Sequences, FiniteSets, TLC

VARIABLES
    pc,        \* matching.py: "main" | "returned" | "written" | "aborted" | "idle"
    done,      \* matching.py: the candidate rows main has consumed, in order
    linkset,   \* matching.py: the defaultdict(set), a function key -> set of triples
    keys,      \* matching.py: the dict's insertion order of its keys
    printed,   \* matching.py: the lines print() wrote to stdout, in order
    outfile,   \* matching.py: the statements buildLinkset wrote, in order
    prog,      \* converters: which script runs, "convert" | "GPI" | "Frick" | "none"
    phase,     \* converters: main's place, "descriptions" | "items" | "returned" | "idle"
    g,         \* converters: the named graph, a set of triples
    last,      \* converters: the handler main called last, "description" | "item" | "none"
    row,       \* converters: the row it was called with
    added,     \* converters: the triples that call passed to g.add
    nrows      \* converters: the rows read from the current file

vars == <<pc, done, linkset, keys, printed, outfile, prog, phase, g, last, row, added, nrows>>

(***************************************************************************)
(* matching.py: the record linkage engine                                  *)
(***************************************************************************)

\* The most candidate rows one run of main reads.
MaxRows == 2

\* The comparison `p > .8` of line 56, with scores counted in thousandths.
Threshold == 800

\* The act types of lines 59-62.
ActTypeWhitelist ==
    {"Boedelinventaris", "Boedelscheiding", "Testament",
     "Overig", "Huwelijkse voorwaarden", "Kwitantie"}

\* The values token_sort_ratio(a, b) takes on the rows of the table, in
\* thousandths: on the threshold, just above it, and well above it.
Scores == {800, 801, 950}

Datasets == {"Getty", "Frick"}
Inventories == {"N-100", "N-200"}
Records == {"rec1", "rec2"}
ActTypes == {"Testament", "Kwitantie", "Unknown"}

\* A row of df.to_dict(orient='records') with every column present.  The
\* field p stands for the value of token_sort_ratio(owner_a, owner_b).
FullRows ==
    [dataset : Datasets, inventory : Inventories, owner_a : {"Trip, Louis"},
     owner_b : {"Louis Trip"}, actType : ActTypes, record : Records, p : Scores]

RowFields == {"dataset", "inventory", "owner_a", "owner_b", "actType", "record"}

\* The row r without its field f: r[f] raises KeyError.
Without(r, f) == [k \in (DOMAIN r) \ {f} |-> r[k]]

BaseRow ==
    [dataset |-> "Getty", inventory |-> "N-100", owner_a |-> "Trip, Louis",
     owner_b |-> "Louis Trip", actType |-> "Testament", record |-> "rec1", p |-> 950]

\* Rows that lack one required field, scored above and on the threshold.
DefectiveRows ==
    {Without([BaseRow EXCEPT !.p = s], f) : f \in RowFields, s \in {800, 950}}

\* Rows whose score lies halfway between two hundredths: 0.815 is printed
\* as 0.81.
HalfwayRows == {[BaseRow EXCEPT !.p = 815, !.actType = a] : a \in {"Testament", "Unknown"}}

CandidateRows == FullRows \cup DefectiveRows \cup HalfwayRows

Has(r, f) == f \in DOMAIN r

\* The scores p / 1000 halfway between two hundredths that round(p, 2) rounds
\* up, for p in 0..1000: the binary double nearest to such a score is not the
\* decimal itself, and round() goes to the hundredth nearest to that double.
HalvesRoundedUp ==
    {5, 25, 35, 55, 65, 85, 95, 115, 135, 165, 195, 225, 255, 265, 275, 315,
     325, 335, 375, 385, 395, 405, 445, 455, 465, 505, 515, 525, 535, 545,
     555, 635, 645, 655, 665, 675, 685, 755, 765, 775, 785, 795, 805, 875,
     885, 895, 905, 915, 925, 935}

\* round(p, 2) of line 57, in hundredths, of a score of p thousandths.
Round2(p) ==
    IF p % 10 = 5
    THEN (IF p \in HalvesRoundedUp THEN (p \div 10) + 1 ELSE p \div 10)
    ELSE (p + 5) \div 10

\* Lines 50-53: the reads that every row undergoes.
ReadsHead(r) == Has(r, "dataset") /\ Has(r, "owner_a") /\ Has(r, "owner_b")

\* Line 56.
AboveThresholdInclusive(r) == r.p >= Threshold
AboveThreshold(r) == r.p > Threshold

\* Lines 59-62.
Whitelisted(r) == r.actType \in ActTypeWhitelist

\* The triple of lines 65-66.
Triple(r) == <<r.dataset, r.record, r.actType>>

\* defaultdict.__getitem__: a missing key is inserted with an empty set.
Touch(ls, k) == IF k \in DOMAIN ls THEN ls ELSE [x \in (DOMAIN ls) \cup {k} |-> IF x = k THEN {} ELSE ls[x]]
TouchOrder(ls, ks, k) == IF k \in DOMAIN ls THEN ks ELSE Append(ks, k)

\* linkset[k].add(t), lines 65-66.
AddLinkReplaces(ls, k, t) == [Touch(ls, k) EXCEPT ![k] = {t}]
AddLinkTouchesOnly(ls, k, t) == Touch(ls, k)
AddLink(ls, k, t) == [Touch(ls, k) EXCEPT ![k] = @ \cup {t}]

\* One iteration of the loop of lines 48-66 on row r.  A read of a column the
\* row lacks raises KeyError, which main does not catch: the run ends there.
\* The rows of one table (line 48) all have the table's columns as their keys.
ProcessRow(r) ==
    /\ pc = "main"
    /\ Len(done) < MaxRows
    /\ IF done = <<>> THEN TRUE ELSE DOMAIN r = DOMAIN done[1]
    /\ done' = Append(done, r)
    /\ outfile' = outfile
    /\ UNCHANGED <<prog, phase, g, last, row, added, nrows>>
    /\ IF ~ReadsHead(r)
       THEN \* KeyError at line 50, 52 or 53
            /\ pc' = "aborted"
            /\ UNCHANGED <<linkset, keys, printed>>
       ELSE IF ~AboveThreshold(r)
       THEN UNCHANGED <<pc, linkset, keys, printed>>
       ELSE /\ printed' = Append(printed, <<Round2(r.p), r.owner_a, r.owner_b>>)
            /\ IF ~Has(r, "actType")
               THEN \* KeyError at line 59
                    /\ pc' = "aborted"
                    /\ UNCHANGED <<linkset, keys>>
               ELSE IF ~Whitelisted(r)
               THEN \* continue, line 63
                    UNCHANGED <<pc, linkset, keys>>
               ELSE IF ~Has(r, "inventory")
               THEN \* KeyError at line 65, before the dict is touched
                    /\ pc' = "aborted"
                    /\ UNCHANGED <<linkset, keys>>
               ELSE IF ~Has(r, "record")
               THEN \* linkset[...] is evaluated, then KeyError at line 66
                    /\ pc' = "aborted"
                    /\ linkset' = Touch(linkset, r.inventory)
                    /\ keys' = TouchOrder(linkset, keys, r.inventory)
               ELSE /\ pc' = pc
                    /\ linkset' = AddLink(linkset, r.inventory, Triple(r))
                    /\ keys' = TouchOrder(linkset, keys, r.inventory)

\* Line 68: the table is exhausted and main returns the linkset.
Return ==
    /\ pc = "main"
    /\ pc' = "returned"
    /\ UNCHANGED <<done, linkset, keys, printed, outfile, prog, phase, g, last, row, added, nrows>>

(***************************************************************************)
(* matching.py: the linkset emitter                                        *)
(***************************************************************************)

\* The two f-strings of lines 79 and 80.
RecordToInventory(inventory, record) == [s |-> record, p |-> "saa:inventory", o |-> inventory]
InventoryToRecord(inventory, record) == [s |-> inventory, p |-> "saa:isInRecord", o |-> record]

\* Line 75.
PrefixLine == [s |-> "@prefix", p |-> "saa:", o |-> "<http://goldenagents.org/uva/SAA/ontology/>"]

\* The orders in which `for ... in match` may visit a set (line 78): the
\* iteration order of a Python set of tuples of strings is not specified.
Orders(S) == {f \in [1..Cardinality(S) -> S] : \A i, j \in 1..Cardinality(S) : f[i] = f[j] => i = j}

\* Lines 78-80 for one inventory, its members visited in the order ord.
RECURSIVE EmitMembersOneWay(_, _)
EmitMembersOneWay(inventory, ord) ==
    IF ord = <<>> THEN <<>>
    ELSE <<RecordToInventory(inventory, ord[1][2])>> \o EmitMembersOneWay(inventory, Tail(ord))
RECURSIVE EmitMembers(_, _)
EmitMembers(inventory, ord) ==
    IF ord = <<>> THEN <<>>
    ELSE <<RecordToInventory(inventory, ord[1][2]),
           InventoryToRecord(inventory, ord[1][2])>> \o EmitMembers(inventory, Tail(ord))

\* Lines 77-80: the inventories in insertion order; choice[k] is the order in
\* which the members of the k-th inventory are visited.
RECURSIVE EmitAll(_, _, _)
EmitAll(ls, ks, choice) ==
    IF ks = <<>> THEN <<>>
    ELSE EmitMembers(ks[1], choice[ks[1]]) \o EmitAll(ls, Tail(ks), choice)

\* buildLinkset, lines 71-80.
BuildLinkset ==
    /\ pc = "returned"
    /\ \E choice \in [DOMAIN linkset -> UNION {Orders(linkset[k]) : k \in DOMAIN linkset}] :
          /\ \A k \in DOMAIN linkset : choice[k] \in Orders(linkset[k])
          /\ outfile' = <<PrefixLine>> \o EmitAll(linkset, keys, choice)
    /\ pc' = "written"
    /\ UNCHANGED <<done, linkset, keys, printed, prog, phase, g, last, row, added, nrows>>

(***************************************************************************)
(* Python string primitives the graph builders use, on sequences of        *)
(* one-character strings                                                   *)
(***************************************************************************)

DigitChars == <<"0", "1", "2", "3", "4", "5", "6", "7", "8", "9">>
LowerChars == <<"a", "b", "c", "d", "e", "f", "g", "h", "i", "j", "k", "l", "m",
                "n", "o", "p", "q", "r", "s", "t", "u", "v", "w", "x", "y", "z">>
UpperChars == <<"A", "B", "C", "D", "E", "F", "G", "H", "I", "J", "K", "L", "M",
                "N", "O", "P", "Q", "R", "S", "T", "U", "V", "W", "X", "Y", "Z">>

Range(seq) == {seq[i] : i \in DOMAIN seq}
IndexIn(seq, c) == CHOOSE i \in DOMAIN seq : seq[i] = c

\* A character above U+00FF, which a TLA+ string cannot hold, is written as
\* the string "U+" followed by its code point in hexadecimal; like any
\* character it is one element of a sequence.

\* The decimal digits int() and the pattern \d accept: the characters of
\* Unicode category Nd (Unicode 14 of Python 3.11), in rows of the digits zero
\* to nine of one script.
DecimalDigits ==
    <<DigitChars,
      <<"U+0660", "U+0661", "U+0662", "U+0663", "U+0664", "U+0665", "U+0666", "U+0667", "U+0668", "U+0669">>,
      <<"U+06F0", "U+06F1", "U+06F2", "U+06F3", "U+06F4", "U+06F5", "U+06F6", "U+06F7", "U+06F8", "U+06F9">>,
      <<"U+07C0", "U+07C1", "U+07C2", "U+07C3", "U+07C4", "U+07C5", "U+07C6", "U+07C7", "U+07C8", "U+07C9">>,
      <<"U+0966", "U+0967", "U+0968", "U+0969", "U+096A", "U+096B", "U+096C", "U+096D", "U+096E", "U+096F">>,
      <<"U+09E6", "U+09E7", "U+09E8", "U+09E9", "U+09EA", "U+09EB", "U+09EC", "U+09ED", "U+09EE", "U+09EF">>,
      <<"U+0A66", "U+0A67", "U+0A68", "U+0A69", "U+0A6A", "U+0A6B", "U+0A6C", "U+0A6D", "U+0A6E", "U+0A6F">>,
      <<"U+0AE6", "U+0AE7", "U+0AE8", "U+0AE9", "U+0AEA", "U+0AEB", "U+0AEC", "U+0AED", "U+0AEE", "U+0AEF">>,
      <<"U+0B66", "U+0B67", "U+0B68", "U+0B69", "U+0B6A", "U+0B6B", "U+0B6C", "U+0B6D", "U+0B6E", "U+0B6F">>,
      <<"U+0BE6", "U+0BE7", "U+0BE8", "U+0BE9", "U+0BEA", "U+0BEB", "U+0BEC", "U+0BED", "U+0BEE", "U+0BEF">>,
      <<"U+0C66", "U+0C67", "U+0C68", "U+0C69", "U+0C6A", "U+0C6B", "U+0C6C", "U+0C6D", "U+0C6E", "U+0C6F">>,
      <<"U+0CE6", "U+0CE7", "U+0CE8", "U+0CE9", "U+0CEA", "U+0CEB", "U+0CEC", "U+0CED", "U+0CEE", "U+0CEF">>,
      <<"U+0D66", "U+0D67", "U+0D68", "U+0D69", "U+0D6A", "U+0D6B", "U+0D6C", "U+0D6D", "U+0D6E", "U+0D6F">>,
      <<"U+0DE6", "U+0DE7", "U+0DE8", "U+0DE9", "U+0DEA", "U+0DEB", "U+0DEC", "U+0DED", "U+0DEE", "U+0DEF">>,
      <<"U+0E50", "U+0E51", "U+0E52", "U+0E53", "U+0E54", "U+0E55", "U+0E56", "U+0E57", "U+0E58", "U+0E59">>,
      <<"U+0ED0", "U+0ED1", "U+0ED2", "U+0ED3", "U+0ED4", "U+0ED5", "U+0ED6", "U+0ED7", "U+0ED8", "U+0ED9">>,
      <<"U+0F20", "U+0F21", "U+0F22", "U+0F23", "U+0F24", "U+0F25", "U+0F26", "U+0F27", "U+0F28", "U+0F29">>,
      <<"U+1040", "U+1041", "U+1042", "U+1043", "U+1044", "U+1045", "U+1046", "U+1047", "U+1048", "U+1049">>,
      <<"U+1090", "U+1091", "U+1092", "U+1093", "U+1094", "U+1095", "U+1096", "U+1097", "U+1098", "U+1099">>,
      <<"U+17E0", "U+17E1", "U+17E2", "U+17E3", "U+17E4", "U+17E5", "U+17E6", "U+17E7", "U+17E8", "U+17E9">>,
      <<"U+1810", "U+1811", "U+1812", "U+1813", "U+1814", "U+1815", "U+1816", "U+1817", "U+1818", "U+1819">>,
      <<"U+1946", "U+1947", "U+1948", "U+1949", "U+194A", "U+194B", "U+194C", "U+194D", "U+194E", "U+194F">>,
      <<"U+19D0", "U+19D1", "U+19D2", "U+19D3", "U+19D4", "U+19D5", "U+19D6", "U+19D7", "U+19D8", "U+19D9">>,
      <<"U+1A80", "U+1A81", "U+1A82", "U+1A83", "U+1A84", "U+1A85", "U+1A86", "U+1A87", "U+1A88", "U+1A89">>,
      <<"U+1A90", "U+1A91", "U+1A92", "U+1A93", "U+1A94", "U+1A95", "U+1A96", "U+1A97", "U+1A98", "U+1A99">>,
      <<"U+1B50", "U+1B51", "U+1B52", "U+1B53", "U+1B54", "U+1B55", "U+1B56", "U+1B57", "U+1B58", "U+1B59">>,
      <<"U+1BB0", "U+1BB1", "U+1BB2", "U+1BB3", "U+1BB4", "U+1BB5", "U+1BB6", "U+1BB7", "U+1BB8", "U+1BB9">>,
      <<"U+1C40", "U+1C41", "U+1C42", "U+1C43", "U+1C44", "U+1C45", "U+1C46", "U+1C47", "U+1C48", "U+1C49">>,
      <<"U+1C50", "U+1C51", "U+1C52", "U+1C53", "U+1C54", "U+1C55", "U+1C56", "U+1C57", "U+1C58", "U+1C59">>,
      <<"U+A620", "U+A621", "U+A622", "U+A623", "U+A624", "U+A625", "U+A626", "U+A627", "U+A628", "U+A629">>,
      <<"U+A8D0", "U+A8D1", "U+A8D2", "U+A8D3", "U+A8D4", "U+A8D5", "U+A8D6", "U+A8D7", "U+A8D8", "U+A8D9">>,
      <<"U+A900", "U+A901", "U+A902", "U+A903", "U+A904", "U+A905", "U+A906", "U+A907", "U+A908", "U+A909">>,
      <<"U+A9D0", "U+A9D1", "U+A9D2", "U+A9D3", "U+A9D4", "U+A9D5", "U+A9D6", "U+A9D7", "U+A9D8", "U+A9D9">>,
      <<"U+A9F0", "U+A9F1", "U+A9F2", "U+A9F3", "U+A9F4", "U+A9F5", "U+A9F6", "U+A9F7", "U+A9F8", "U+A9F9">>,
      <<"U+AA50", "U+AA51", "U+AA52", "U+AA53", "U+AA54", "U+AA55", "U+AA56", "U+AA57", "U+AA58", "U+AA59">>,
      <<"U+ABF0", "U+ABF1", "U+ABF2", "U+ABF3", "U+ABF4", "U+ABF5", "U+ABF6", "U+ABF7", "U+ABF8", "U+ABF9">>,
      <<"U+FF10", "U+FF11", "U+FF12", "U+FF13", "U+FF14", "U+FF15", "U+FF16", "U+FF17", "U+FF18", "U+FF19">>,
      <<"U+104A0", "U+104A1", "U+104A2", "U+104A3", "U+104A4", "U+104A5", "U+104A6", "U+104A7", "U+104A8", "U+104A9">>,
      <<"U+10D30", "U+10D31", "U+10D32", "U+10D33", "U+10D34", "U+10D35", "U+10D36", "U+10D37", "U+10D38", "U+10D39">>,
      <<"U+11066", "U+11067", "U+11068", "U+11069", "U+1106A", "U+1106B", "U+1106C", "U+1106D", "U+1106E", "U+1106F">>,
      <<"U+110F0", "U+110F1", "U+110F2", "U+110F3", "U+110F4", "U+110F5", "U+110F6", "U+110F7", "U+110F8", "U+110F9">>,
      <<"U+11136", "U+11137", "U+11138", "U+11139", "U+1113A", "U+1113B", "U+1113C", "U+1113D", "U+1113E", "U+1113F">>,
      <<"U+111D0", "U+111D1", "U+111D2", "U+111D3", "U+111D4", "U+111D5", "U+111D6", "U+111D7", "U+111D8", "U+111D9">>,
      <<"U+112F0", "U+112F1", "U+112F2", "U+112F3", "U+112F4", "U+112F5", "U+112F6", "U+112F7", "U+112F8", "U+112F9">>,
      <<"U+11450", "U+11451", "U+11452", "U+11453", "U+11454", "U+11455", "U+11456", "U+11457", "U+11458", "U+11459">>,
      <<"U+114D0", "U+114D1", "U+114D2", "U+114D3", "U+114D4", "U+114D5", "U+114D6", "U+114D7", "U+114D8", "U+114D9">>,
      <<"U+11650", "U+11651", "U+11652", "U+11653", "U+11654", "U+11655", "U+11656", "U+11657", "U+11658", "U+11659">>,
      <<"U+116C0", "U+116C1", "U+116C2", "U+116C3", "U+116C4", "U+116C5", "U+116C6", "U+116C7", "U+116C8", "U+116C9">>,
      <<"U+11730", "U+11731", "U+11732", "U+11733", "U+11734", "U+11735", "U+11736", "U+11737", "U+11738", "U+11739">>,
      <<"U+118E0", "U+118E1", "U+118E2", "U+118E3", "U+118E4", "U+118E5", "U+118E6", "U+118E7", "U+118E8", "U+118E9">>,
      <<"U+11950", "U+11951", "U+11952", "U+11953", "U+11954", "U+11955", "U+11956", "U+11957", "U+11958", "U+11959">>,
      <<"U+11C50", "U+11C51", "U+11C52", "U+11C53", "U+11C54", "U+11C55", "U+11C56", "U+11C57", "U+11C58", "U+11C59">>,
      <<"U+11D50", "U+11D51", "U+11D52", "U+11D53", "U+11D54", "U+11D55", "U+11D56", "U+11D57", "U+11D58", "U+11D59">>,
      <<"U+11DA0", "U+11DA1", "U+11DA2", "U+11DA3", "U+11DA4", "U+11DA5", "U+11DA6", "U+11DA7", "U+11DA8", "U+11DA9">>,
      <<"U+16A60", "U+16A61", "U+16A62", "U+16A63", "U+16A64", "U+16A65", "U+16A66", "U+16A67", "U+16A68", "U+16A69">>,
      <<"U+16AC0", "U+16AC1", "U+16AC2", "U+16AC3", "U+16AC4", "U+16AC5", "U+16AC6", "U+16AC7", "U+16AC8", "U+16AC9">>,
      <<"U+16B50", "U+16B51", "U+16B52", "U+16B53", "U+16B54", "U+16B55", "U+16B56", "U+16B57", "U+16B58", "U+16B59">>,
      <<"U+1D7CE", "U+1D7CF", "U+1D7D0", "U+1D7D1", "U+1D7D2", "U+1D7D3", "U+1D7D4", "U+1D7D5", "U+1D7D6", "U+1D7D7">>,
      <<"U+1D7D8", "U+1D7D9", "U+1D7DA", "U+1D7DB", "U+1D7DC", "U+1D7DD", "U+1D7DE", "U+1D7DF", "U+1D7E0", "U+1D7E1">>,
      <<"U+1D7E2", "U+1D7E3", "U+1D7E4", "U+1D7E5", "U+1D7E6", "U+1D7E7", "U+1D7E8", "U+1D7E9", "U+1D7EA", "U+1D7EB">>,
      <<"U+1D7EC", "U+1D7ED", "U+1D7EE", "U+1D7EF", "U+1D7F0", "U+1D7F1", "U+1D7F2", "U+1D7F3", "U+1D7F4", "U+1D7F5">>,
      <<"U+1D7F6", "U+1D7F7", "U+1D7F8", "U+1D7F9", "U+1D7FA", "U+1D7FB", "U+1D7FC", "U+1D7FD", "U+1D7FE", "U+1D7FF">>,
      <<"U+1E140", "U+1E141", "U+1E142", "U+1E143", "U+1E144", "U+1E145", "U+1E146", "U+1E147", "U+1E148", "U+1E149">>,
      <<"U+1E2F0", "U+1E2F1", "U+1E2F2", "U+1E2F3", "U+1E2F4", "U+1E2F5", "U+1E2F6", "U+1E2F7", "U+1E2F8", "U+1E2F9">>,
      <<"U+1E950", "U+1E951", "U+1E952", "U+1E953", "U+1E954", "U+1E955", "U+1E956", "U+1E957", "U+1E958", "U+1E959">>,
      <<"U+1FBF0", "U+1FBF1", "U+1FBF2", "U+1FBF3", "U+1FBF4", "U+1FBF5", "U+1FBF6", "U+1FBF7", "U+1FBF8", "U+1FBF9">>>>
DigitSet == UNION {Range(DecimalDigits[i]) : i \in DOMAIN DecimalDigits}
DigitValues ==
    [c \in DigitSet |->
        (CHOOSE k \in 1..10 : \E i \in DOMAIN DecimalDigits : DecimalDigits[i][k] = c) - 1]

IsDigit(c) == c \in DigitSet
DigitVal(c) == DigitValues[c]

\* string.ascii_letters
AsciiLetters == Range(LowerChars) \cup Range(UpperChars)

\* The whitespace int() skips around a number: U+0009 to U+000D, U+0020,
\* U+0085, U+00A0, U+1680, U+2000 to U+200A, U+2028, U+2029, U+202F, U+205F,
\* U+3000.  The separators U+001C to U+001F, which str.isspace() accepts, are
\* not among them: int('\x1c7') raises ValueError.
IntSpaces ==
    {"\t", "\n", "", "\f", "\r", " ", "", " ", "U+1680", "U+2000",
     "U+2001", "U+2002", "U+2003", "U+2004", "U+2005", "U+2006", "U+2007",
     "U+2008", "U+2009", "U+200A", "U+2028", "U+2029", "U+202F", "U+205F",
     "U+3000"}
IsSpace(c) == c \in IntSpaces

\* str.upper: every character c with c.upper() != c, paired with c.upper()
\* (one to three characters; the mapping does not depend on the neighbours).
UpperPairs ==
    {<<"a", <<"A">>>>, <<"b", <<"B">>>>, <<"c", <<"C">>>>, <<"d", <<"D">>>>,
     <<"e", <<"E">>>>, <<"f", <<"F">>>>, <<"g", <<"G">>>>, <<"h", <<"H">>>>,
     <<"i", <<"I">>>>, <<"j", <<"J">>>>, <<"k", <<"K">>>>, <<"l", <<"L">>>>,
     <<"m", <<"M">>>>, <<"n", <<"N">>>>, <<"o", <<"O">>>>, <<"p", <<"P">>>>,
     <<"q", <<"Q">>>>, <<"r", <<"R">>>>, <<"s", <<"S">>>>, <<"t", <<"T">>>>,
     <<"u", <<"U">>>>, <<"v", <<"V">>>>, <<"w", <<"W">>>>, <<"x", <<"X">>>>,
     <<"y", <<"Y">>>>, <<"z", <<"Z">>>>, <<"µ", <<"U+039C">>>>,
     <<"ß", <<"S", "S">>>>, <<"à", <<"À">>>>, <<"á", <<"Á">>>>,
     <<"â", <<"Â">>>>, <<"ã", <<"Ã">>>>, <<"ä", <<"Ä">>>>, <<"å", <<"Å">>>>,
     <<"æ", <<"Æ">>>>, <<"ç", <<"Ç">>>>, <<"è", <<"È">>>>, <<"é", <<"É">>>>,
     <<"ê", <<"Ê">>>>, <<"ë", <<"Ë">>>>, <<"ì", <<"Ì">>>>, <<"í", <<"Í">>>>,
     <<"î", <<"Î">>>>, <<"ï", <<"Ï">>>>, <<"ð", <<"Ð">>>>, <<"ñ", <<"Ñ">>>>,
     <<"ò", <<"Ò">>>>, <<"ó", <<"Ó">>>>, <<"ô", <<"Ô">>>>, <<"õ", <<"Õ">>>>,
     <<"ö", <<"Ö">>>>, <<"ø", <<"Ø">>>>, <<"ù", <<"Ù">>>>, <<"ú", <<"Ú">>>>,
     <<"û", <<"Û">>>>, <<"ü", <<"Ü">>>>, <<"ý", <<"Ý">>>>, <<"þ", <<"Þ">>>>,
     <<"ÿ", <<"U+0178">>>>, <<"U+0101", <<"U+0100">>>>,
     <<"U+0103", <<"U+0102">>>>, <<"U+0105", <<"U+0104">>>>,
     <<"U+0107", <<"U+0106">>>>, <<"U+0109", <<"U+0108">>>>,
     <<"U+010B", <<"U+010A">>>>, <<"U+010D", <<"U+010C">>>>,
     <<"U+010F", <<"U+010E">>>>, <<"U+0111", <<"U+0110">>>>,
     <<"U+0113", <<"U+0112">>>>, <<"U+0115", <<"U+0114">>>>,
     <<"U+0117", <<"U+0116">>>>, <<"U+0119", <<"U+0118">>>>,
     <<"U+011B", <<"U+011A">>>>, <<"U+011D", <<"U+011C">>>>,
     <<"U+011F", <<"U+011E">>>>, <<"U+0121", <<"U+0120">>>>,
     <<"U+0123", <<"U+0122">>>>, <<"U+0125", <<"U+0124">>>>,
     <<"U+0127", <<"U+0126">>>>, <<"U+0129", <<"U+0128">>>>,
     <<"U+012B", <<"U+012A">>>>, <<"U+012D", <<"U+012C">>>>,
     <<"U+012F", <<"U+012E">>>>, <<"U+0131", <<"I">>>>,
     <<"U+0133", <<"U+0132">>>>, <<"U+0135", <<"U+0134">>>>,
     <<"U+0137", <<"U+0136">>>>, <<"U+013A", <<"U+0139">>>>,
     <<"U+013C", <<"U+013B">>>>, <<"U+013E", <<"U+013D">>>>,
     <<"U+0140", <<"U+013F">>>>, <<"U+0142", <<"U+0141">>>>,
     <<"U+0144", <<"U+0143">>>>, <<"U+0146", <<"U+0145">>>>,
     <<"U+0148", <<"U+0147">>>>, <<"U+0149", <<"U+02BC", "N">>>>,
     <<"U+014B", <<"U+014A">>>>, <<"U+014D", <<"U+014C">>>>,
     <<"U+014F", <<"U+014E">>>>, <<"U+0151", <<"U+0150">>>>,
     <<"U+0153", <<"U+0152">>>>, <<"U+0155", <<"U+0154">>>>,
     <<"U+0157", <<"U+0156">>>>, <<"U+0159", <<"U+0158">>>>,
     <<"U+015B", <<"U+015A">>>>, <<"U+015D", <<"U+015C">>>>,
     <<"U+015F", <<"U+015E">>>>, <<"U+0161", <<"U+0160">>>>,
     <<"U+0163", <<"U+0162">>>>, <<"U+0165", <<"U+0164">>>>,
     <<"U+0167", <<"U+0166">>>>, <<"U+0169", <<"U+0168">>>>,
     <<"U+016B", <<"U+016A">>>>, <<"U+016D", <<"U+016C">>>>,
     <<"U+016F", <<"U+016E">>>>, <<"U+0171", <<"U+0170">>>>,
     <<"U+0173", <<"U+0172">>>>, <<"U+0175", <<"U+0174">>>>,
     <<"U+0177", <<"U+0176">>>>, <<"U+017A", <<"U+0179">>>>,
     <<"U+017C", <<"U+017B">>>>, <<"U+017E", <<"U+017D">>>>,
     <<"U+017F", <<"S">>>>, <<"U+0180", <<"U+0243">>>>,
     <<"U+0183", <<"U+0182">>>>, <<"U+0185", <<"U+0184">>>>,
     <<"U+0188", <<"U+0187">>>>, <<"U+018C", <<"U+018B">>>>,
     <<"U+0192", <<"U+0191">>>>, <<"U+0195", <<"U+01F6">>>>,
     <<"U+0199", <<"U+0198">>>>, <<"U+019A", <<"U+023D">>>>,
     <<"U+019E", <<"U+0220">>>>, <<"U+01A1", <<"U+01A0">>>>,
     <<"U+01A3", <<"U+01A2">>>>, <<"U+01A5", <<"U+01A4">>>>,
     <<"U+01A8", <<"U+01A7">>>>, <<"U+01AD", <<"U+01AC">>>>,
     <<"U+01B0", <<"U+01AF">>>>, <<"U+01B4", <<"U+01B3">>>>,
     <<"U+01B6", <<"U+01B5">>>>, <<"U+01B9", <<"U+01B8">>>>,
     <<"U+01BD", <<"U+01BC">>>>, <<"U+01BF", <<"U+01F7">>>>,
     <<"U+01C5", <<"U+01C4">>>>, <<"U+01C6", <<"U+01C4">>>>,
     <<"U+01C8", <<"U+01C7">>>>, <<"U+01C9", <<"U+01C7">>>>,
     <<"U+01CB", <<"U+01CA">>>>, <<"U+01CC", <<"U+01CA">>>>,
     <<"U+01CE", <<"U+01CD">>>>, <<"U+01D0", <<"U+01CF">>>>,
     <<"U+01D2", <<"U+01D1">>>>, <<"U+01D4", <<"U+01D3">>>>,
     <<"U+01D6", <<"U+01D5">>>>, <<"U+01D8", <<"U+01D7">>>>,
     <<"U+01DA", <<"U+01D9">>>>, <<"U+01DC", <<"U+01DB">>>>,
     <<"U+01DD", <<"U+018E">>>>, <<"U+01DF", <<"U+01DE">>>>,
     <<"U+01E1", <<"U+01E0">>>>, <<"U+01E3", <<"U+01E2">>>>,
     <<"U+01E5", <<"U+01E4">>>>, <<"U+01E7", <<"U+01E6">>>>,
     <<"U+01E9", <<"U+01E8">>>>, <<"U+01EB", <<"U+01EA">>>>,
     <<"U+01ED", <<"U+01EC">>>>, <<"U+01EF", <<"U+01EE">>>>,
     <<"U+01F0", <<"J", "U+030C">>>>, <<"U+01F2", <<"U+01F1">>>>,
     <<"U+01F3", <<"U+01F1">>>>, <<"U+01F5", <<"U+01F4">>>>,
     <<"U+01F9", <<"U+01F8">>>>, <<"U+01FB", <<"U+01FA">>>>,
     <<"U+01FD", <<"U+01FC">>>>, <<"U+01FF", <<"U+01FE">>>>,
     <<"U+0201", <<"U+0200">>>>, <<"U+0203", <<"U+0202">>>>,
     <<"U+0205", <<"U+0204">>>>, <<"U+0207", <<"U+0206">>>>,
     <<"U+0209", <<"U+0208">>>>, <<"U+020B", <<"U+020A">>>>,
     <<"U+020D", <<"U+020C">>>>, <<"U+020F", <<"U+020E">>>>,
     <<"U+0211", <<"U+0210">>>>, <<"U+0213", <<"U+0212">>>>,
     <<"U+0215", <<"U+0214">>>>, <<"U+0217", <<"U+0216">>>>,
     <<"U+0219", <<"U+0218">>>>, <<"U+021B", <<"U+021A">>>>,
     <<"U+021D", <<"U+021C">>>>, <<"U+021F", <<"U+021E">>>>,
     <<"U+0223", <<"U+0222">>>>, <<"U+0225", <<"U+0224">>>>,
     <<"U+0227", <<"U+0226">>>>, <<"U+0229", <<"U+0228">>>>,
     <<"U+022B", <<"U+022A">>>>, <<"U+022D", <<"U+022C">>>>,
     <<"U+022F", <<"U+022E">>>>, <<"U+0231", <<"U+0230">>>>,
     <<"U+0233", <<"U+0232">>>>, <<"U+023C", <<"U+023B">>>>,
     <<"U+023F", <<"U+2C7E">>>>, <<"U+0240", <<"U+2C7F">>>>,
     <<"U+0242", <<"U+0241">>>>, <<"U+0247", <<"U+0246">>>>,
     <<"U+0249", <<"U+0248">>>>, <<"U+024B", <<"U+024A">>>>,
     <<"U+024D", <<"U+024C">>>>, <<"U+024F", <<"U+024E">>>>,
     <<"U+0250", <<"U+2C6F">>>>, <<"U+0251", <<"U+2C6D">>>>,
     <<"U+0252", <<"U+2C70">>>>, <<"U+0253", <<"U+0181">>>>,
     <<"U+0254", <<"U+0186">>>>, <<"U+0256", <<"U+0189">>>>,
     <<"U+0257", <<"U+018A">>>>, <<"U+0259", <<"U+018F">>>>,
     <<"U+025B", <<"U+0190">>>>, <<"U+025C", <<"U+A7AB">>>>,
     <<"U+0260", <<"U+0193">>>>, <<"U+0261", <<"U+A7AC">>>>,
     <<"U+0263", <<"U+0194">>>>, <<"U+0265", <<"U+A78D">>>>,
     <<"U+0266", <<"U+A7AA">>>>, <<"U+0268", <<"U+0197">>>>,
     <<"U+0269", <<"U+0196">>>>, <<"U+026A", <<"U+A7AE">>>>,
     <<"U+026B", <<"U+2C62">>>>, <<"U+026C", <<"U+A7AD">>>>,
     <<"U+026F", <<"U+019C">>>>, <<"U+0271", <<"U+2C6E">>>>,
     <<"U+0272", <<"U+019D">>>>, <<"U+0275", <<"U+019F">>>>,
     <<"U+027D", <<"U+2C64">>>>, <<"U+0280", <<"U+01A6">>>>,
     <<"U+0282", <<"U+A7C5">>>>, <<"U+0283", <<"U+01A9">>>>,
     <<"U+0287", <<"U+A7B1">>>>, <<"U+0288", <<"U+01AE">>>>,
     <<"U+0289", <<"U+0244">>>>, <<"U+028A", <<"U+01B1">>>>,
     <<"U+028B", <<"U+01B2">>>>, <<"U+028C", <<"U+0245">>>>,
     <<"U+0292", <<"U+01B7">>>>, <<"U+029D", <<"U+A7B2">>>>,
     <<"U+029E", <<"U+A7B0">>>>, <<"U+0345", <<"U+0399">>>>,
     <<"U+0371", <<"U+0370">>>>, <<"U+0373", <<"U+0372">>>>,
     <<"U+0377", <<"U+0376">>>>, <<"U+037B", <<"U+03FD">>>>,
     <<"U+037C", <<"U+03FE">>>>, <<"U+037D", <<"U+03FF">>>>,
     <<"U+0390", <<"U+0399", "U+0308", "U+0301">>>>,
     <<"U+03AC", <<"U+0386">>>>, <<"U+03AD", <<"U+0388">>>>,
     <<"U+03AE", <<"U+0389">>>>, <<"U+03AF", <<"U+038A">>>>,
     <<"U+03B0", <<"U+03A5", "U+0308", "U+0301">>>>,
     <<"U+03B1", <<"U+0391">>>>, <<"U+03B2", <<"U+0392">>>>,
     <<"U+03B3", <<"U+0393">>>>, <<"U+03B4", <<"U+0394">>>>,
     <<"U+03B5", <<"U+0395">>>>, <<"U+03B6", <<"U+0396">>>>,
     <<"U+03B7", <<"U+0397">>>>, <<"U+03B8", <<"U+0398">>>>,
     <<"U+03B9", <<"U+0399">>>>, <<"U+03BA", <<"U+039A">>>>,
     <<"U+03BB", <<"U+039B">>>>, <<"U+03BC", <<"U+039C">>>>,
     <<"U+03BD", <<"U+039D">>>>, <<"U+03BE", <<"U+039E">>>>,
     <<"U+03BF", <<"U+039F">>>>, <<"U+03C0", <<"U+03A0">>>>,
     <<"U+03C1", <<"U+03A1">>>>, <<"U+03C2", <<"U+03A3">>>>,
     <<"U+03C3", <<"U+03A3">>>>, <<"U+03C4", <<"U+03A4">>>>,
     <<"U+03C5", <<"U+03A5">>>>, <<"U+03C6", <<"U+03A6">>>>,
     <<"U+03C7", <<"U+03A7">>>>, <<"U+03C8", <<"U+03A8">>>>,
     <<"U+03C9", <<"U+03A9">>>>, <<"U+03CA", <<"U+03AA">>>>,
     <<"U+03CB", <<"U+03AB">>>>, <<"U+03CC", <<"U+038C">>>>,
     <<"U+03CD", <<"U+038E">>>>, <<"U+03CE", <<"U+038F">>>>,
     <<"U+03D0", <<"U+0392">>>>, <<"U+03D1", <<"U+0398">>>>,
     <<"U+03D5", <<"U+03A6">>>>, <<"U+03D6", <<"U+03A0">>>>,
     <<"U+03D7", <<"U+03CF">>>>, <<"U+03D9", <<"U+03D8">>>>,
     <<"U+03DB", <<"U+03DA">>>>, <<"U+03DD", <<"U+03DC">>>>,
     <<"U+03DF", <<"U+03DE">>>>, <<"U+03E1", <<"U+03E0">>>>,
     <<"U+03E3", <<"U+03E2">>>>, <<"U+03E5", <<"U+03E4">>>>,
     <<"U+03E7", <<"U+03E6">>>>, <<"U+03E9", <<"U+03E8">>>>,
     <<"U+03EB", <<"U+03EA">>>>, <<"U+03ED", <<"U+03EC">>>>,
     <<"U+03EF", <<"U+03EE">>>>, <<"U+03F0", <<"U+039A">>>>,
     <<"U+03F1", <<"U+03A1">>>>, <<"U+03F2", <<"U+03F9">>>>,
     <<"U+03F3", <<"U+037F">>>>, <<"U+03F5", <<"U+0395">>>>,
     <<"U+03F8", <<"U+03F7">>>>, <<"U+03FB", <<"U+03FA">>>>,
     <<"U+0430", <<"U+0410">>>>, <<"U+0431", <<"U+0411">>>>,
     <<"U+0432", <<"U+0412">>>>, <<"U+0433", <<"U+0413">>>>,
     <<"U+0434", <<"U+0414">>>>, <<"U+0435", <<"U+0415">>>>,
     <<"U+0436", <<"U+0416">>>>, <<"U+0437", <<"U+0417">>>>,
     <<"U+0438", <<"U+0418">>>>, <<"U+0439", <<"U+0419">>>>,
     <<"U+043A", <<"U+041A">>>>, <<"U+043B", <<"U+041B">>>>,
     <<"U+043C", <<"U+041C">>>>, <<"U+043D", <<"U+041D">>>>,
     <<"U+043E", <<"U+041E">>>>, <<"U+043F", <<"U+041F">>>>,
     <<"U+0440", <<"U+0420">>>>, <<"U+0441", <<"U+0421">>>>,
     <<"U+0442", <<"U+0422">>>>, <<"U+0443", <<"U+0423">>>>,
     <<"U+0444", <<"U+0424">>>>, <<"U+0445", <<"U+0425">>>>,
     <<"U+0446", <<"U+0426">>>>, <<"U+0447", <<"U+0427">>>>,
     <<"U+0448", <<"U+0428">>>>, <<"U+0449", <<"U+0429">>>>,
     <<"U+044A", <<"U+042A">>>>, <<"U+044B", <<"U+042B">>>>,
     <<"U+044C", <<"U+042C">>>>, <<"U+044D", <<"U+042D">>>>,
     <<"U+044E", <<"U+042E">>>>, <<"U+044F", <<"U+042F">>>>,
     <<"U+0450", <<"U+0400">>>>, <<"U+0451", <<"U+0401">>>>,
     <<"U+0452", <<"U+0402">>>>, <<"U+0453", <<"U+0403">>>>,
     <<"U+0454", <<"U+0404">>>>, <<"U+0455", <<"U+0405">>>>,
     <<"U+0456", <<"U+0406">>>>, <<"U+0457", <<"U+0407">>>>,
     <<"U+0458", <<"U+0408">>>>, <<"U+0459", <<"U+0409">>>>,
     <<"U+045A", <<"U+040A">>>>, <<"U+045B", <<"U+040B">>>>,
     <<"U+045C", <<"U+040C">>>>, <<"U+045D", <<"U+040D">>>>,
     <<"U+045E", <<"U+040E">>>>, <<"U+045F", <<"U+040F">>>>,
     <<"U+0461", <<"U+0460">>>>, <<"U+0463", <<"U+0462">>>>,
     <<"U+0465", <<"U+0464">>>>, <<"U+0467", <<"U+0466">>>>,
     <<"U+0469", <<"U+0468">>>>, <<"U+046B", <<"U+046A">>>>,
     <<"U+046D", <<"U+046C">>>>, <<"U+046F", <<"U+046E">>>>,
     <<"U+0471", <<"U+0470">>>>, <<"U+0473", <<"U+0472">>>>,
     <<"U+0475", <<"U+0474">>>>, <<"U+0477", <<"U+0476">>>>,
     <<"U+0479", <<"U+0478">>>>, <<"U+047B", <<"U+047A">>>>,
     <<"U+047D", <<"U+047C">>>>, <<"U+047F", <<"U+047E">>>>,
     <<"U+0481", <<"U+0480">>>>, <<"U+048B", <<"U+048A">>>>,
     <<"U+048D", <<"U+048C">>>>, <<"U+048F", <<"U+048E">>>>,
     <<"U+0491", <<"U+0490">>>>, <<"U+0493", <<"U+0492">>>>,
     <<"U+0495", <<"U+0494">>>>, <<"U+0497", <<"U+0496">>>>,
     <<"U+0499", <<"U+0498">>>>, <<"U+049B", <<"U+049A">>>>,
     <<"U+049D", <<"U+049C">>>>, <<"U+049F", <<"U+049E">>>>,
     <<"U+04A1", <<"U+04A0">>>>, <<"U+04A3", <<"U+04A2">>>>,
     <<"U+04A5", <<"U+04A4">>>>, <<"U+04A7", <<"U+04A6">>>>,
     <<"U+04A9", <<"U+04A8">>>>, <<"U+04AB", <<"U+04AA">>>>,
     <<"U+04AD", <<"U+04AC">>>>, <<"U+04AF", <<"U+04AE">>>>,
     <<"U+04B1", <<"U+04B0">>>>, <<"U+04B3", <<"U+04B2">>>>,
     <<"U+04B5", <<"U+04B4">>>>, <<"U+04B7", <<"U+04B6">>>>,
     <<"U+04B9", <<"U+04B8">>>>, <<"U+04BB", <<"U+04BA">>>>,
     <<"U+04BD", <<"U+04BC">>>>, <<"U+04BF", <<"U+04BE">>>>,
     <<"U+04C2", <<"U+04C1">>>>, <<"U+04C4", <<"U+04C3">>>>,
     <<"U+04C6", <<"U+04C5">>>>, <<"U+04C8", <<"U+04C7">>>>,
     <<"U+04CA", <<"U+04C9">>>>, <<"U+04CC", <<"U+04CB">>>>,
     <<"U+04CE", <<"U+04CD">>>>, <<"U+04CF", <<"U+04C0">>>>,
     <<"U+04D1", <<"U+04D0">>>>, <<"U+04D3", <<"U+04D2">>>>,
     <<"U+04D5", <<"U+04D4">>>>, <<"U+04D7", <<"U+04D6">>>>,
     <<"U+04D9", <<"U+04D8">>>>, <<"U+04DB", <<"U+04DA">>>>,
     <<"U+04DD", <<"U+04DC">>>>, <<"U+04DF", <<"U+04DE">>>>,
     <<"U+04E1", <<"U+04E0">>>>, <<"U+04E3", <<"U+04E2">>>>,
     <<"U+04E5", <<"U+04E4">>>>, <<"U+04E7", <<"U+04E6">>>>,
     <<"U+04E9", <<"U+04E8">>>>, <<"U+04EB", <<"U+04EA">>>>,
     <<"U+04ED", <<"U+04EC">>>>, <<"U+04EF", <<"U+04EE">>>>,
     <<"U+04F1", <<"U+04F0">>>>, <<"U+04F3", <<"U+04F2">>>>,
     <<"U+04F5", <<"U+04F4">>>>, <<"U+04F7", <<"U+04F6">>>>,
     <<"U+04F9", <<"U+04F8">>>>, <<"U+04FB", <<"U+04FA">>>>,
     <<"U+04FD", <<"U+04FC">>>>, <<"U+04FF", <<"U+04FE">>>>,
     <<"U+0501", <<"U+0500">>>>, <<"U+0503", <<"U+0502">>>>,
     <<"U+0505", <<"U+0504">>>>, <<"U+0507", <<"U+0506">>>>,
     <<"U+0509", <<"U+0508">>>>, <<"U+050B", <<"U+050A">>>>,
     <<"U+050D", <<"U+050C">>>>, <<"U+050F", <<"U+050E">>>>,
     <<"U+0511", <<"U+0510">>>>, <<"U+0513", <<"U+0512">>>>,
     <<"U+0515", <<"U+0514">>>>, <<"U+0517", <<"U+0516">>>>,
     <<"U+0519", <<"U+0518">>>>, <<"U+051B", <<"U+051A">>>>,
     <<"U+051D", <<"U+051C">>>>, <<"U+051F", <<"U+051E">>>>,
     <<"U+0521", <<"U+0520">>>>, <<"U+0523", <<"U+0522">>>>,
     <<"U+0525", <<"U+0524">>>>, <<"U+0527", <<"U+0526">>>>,
     <<"U+0529", <<"U+0528">>>>, <<"U+052B", <<"U+052A">>>>,
     <<"U+052D", <<"U+052C">>>>, <<"U+052F", <<"U+052E">>>>,
     <<"U+0561", <<"U+0531">>>>, <<"U+0562", <<"U+0532">>>>,
     <<"U+0563", <<"U+0533">>>>, <<"U+0564", <<"U+0534">>>>,
     <<"U+0565", <<"U+0535">>>>, <<"U+0566", <<"U+0536">>>>,
     <<"U+0567", <<"U+0537">>>>, <<"U+0568", <<"U+0538">>>>,
     <<"U+0569", <<"U+0539">>>>, <<"U+056A", <<"U+053A">>>>,
     <<"U+056B", <<"U+053B">>>>, <<"U+056C", <<"U+053C">>>>,
     <<"U+056D", <<"U+053D">>>>, <<"U+056E", <<"U+053E">>>>,
     <<"U+056F", <<"U+053F">>>>, <<"U+0570", <<"U+0540">>>>,
     <<"U+0571", <<"U+0541">>>>, <<"U+0572", <<"U+0542">>>>,
     <<"U+0573", <<"U+0543">>>>, <<"U+0574", <<"U+0544">>>>,
     <<"U+0575", <<"U+0545">>>>, <<"U+0576", <<"U+0546">>>>,
     <<"U+0577", <<"U+0547">>>>, <<"U+0578", <<"U+0548">>>>,
     <<"U+0579", <<"U+0549">>>>, <<"U+057A", <<"U+054A">>>>,
     <<"U+057B", <<"U+054B">>>>, <<"U+057C", <<"U+054C">>>>,
     <<"U+057D", <<"U+054D">>>>, <<"U+057E", <<"U+054E">>>>,
     <<"U+057F", <<"U+054F">>>>, <<"U+0580", <<"U+0550">>>>,
     <<"U+0581", <<"U+0551">>>>, <<"U+0582", <<"U+0552">>>>,
     <<"U+0583", <<"U+0553">>>>, <<"U+0584", <<"U+0554">>>>,
     <<"U+0585", <<"U+0555">>>>, <<"U+0586", <<"U+0556">>>>,
     <<"U+0587", <<"U+0535", "U+0552">>>>, <<"U+10D0", <<"U+1C90">>>>,
     <<"U+10D1", <<"U+1C91">>>>, <<"U+10D2", <<"U+1C92">>>>,
     <<"U+10D3", <<"U+1C93">>>>, <<"U+10D4", <<"U+1C94">>>>,
     <<"U+10D5", <<"U+1C95">>>>, <<"U+10D6", <<"U+1C96">>>>,
     <<"U+10D7", <<"U+1C97">>>>, <<"U+10D8", <<"U+1C98">>>>,
     <<"U+10D9", <<"U+1C99">>>>, <<"U+10DA", <<"U+1C9A">>>>,
     <<"U+10DB", <<"U+1C9B">>>>, <<"U+10DC", <<"U+1C9C">>>>,
     <<"U+10DD", <<"U+1C9D">>>>, <<"U+10DE", <<"U+1C9E">>>>,
     <<"U+10DF", <<"U+1C9F">>>>, <<"U+10E0", <<"U+1CA0">>>>,
     <<"U+10E1", <<"U+1CA1">>>>, <<"U+10E2", <<"U+1CA2">>>>,
     <<"U+10E3", <<"U+1CA3">>>>, <<"U+10E4", <<"U+1CA4">>>>,
     <<"U+10E5", <<"U+1CA5">>>>, <<"U+10E6", <<"U+1CA6">>>>,
     <<"U+10E7", <<"U+1CA7">>>>, <<"U+10E8", <<"U+1CA8">>>>,
     <<"U+10E9", <<"U+1CA9">>>>, <<"U+10EA", <<"U+1CAA">>>>,
     <<"U+10EB", <<"U+1CAB">>>>, <<"U+10EC", <<"U+1CAC">>>>,
     <<"U+10ED", <<"U+1CAD">>>>, <<"U+10EE", <<"U+1CAE">>>>,
     <<"U+10EF", <<"U+1CAF">>>>, <<"U+10F0", <<"U+1CB0">>>>,
     <<"U+10F1", <<"U+1CB1">>>>, <<"U+10F2", <<"U+1CB2">>>>,
     <<"U+10F3", <<"U+1CB3">>>>, <<"U+10F4", <<"U+1CB4">>>>,
     <<"U+10F5", <<"U+1CB5">>>>, <<"U+10F6", <<"U+1CB6">>>>,
     <<"U+10F7", <<"U+1CB7">>>>, <<"U+10F8", <<"U+1CB8">>>>,
     <<"U+10F9", <<"U+1CB9">>>>, <<"U+10FA", <<"U+1CBA">>>>,
     <<"U+10FD", <<"U+1CBD">>>>, <<"U+10FE", <<"U+1CBE">>>>,
     <<"U+10FF", <<"U+1CBF">>>>, <<"U+13F8", <<"U+13F0">>>>,
     <<"U+13F9", <<"U+13F1">>>>, <<"U+13FA", <<"U+13F2">>>>,
     <<"U+13FB", <<"U+13F3">>>>, <<"U+13FC", <<"U+13F4">>>>,
     <<"U+13FD", <<"U+13F5">>>>, <<"U+1C80", <<"U+0412">>>>,
     <<"U+1C81", <<"U+0414">>>>, <<"U+1C82", <<"U+041E">>>>,
     <<"U+1C83", <<"U+0421">>>>, <<"U+1C84", <<"U+0422">>>>,
     <<"U+1C85", <<"U+0422">>>>, <<"U+1C86", <<"U+042A">>>>,
     <<"U+1C87", <<"U+0462">>>>, <<"U+1C88", <<"U+A64A">>>>,
     <<"U+1D79", <<"U+A77D">>>>, <<"U+1D7D", <<"U+2C63">>>>,
     <<"U+1D8E", <<"U+A7C6">>>>, <<"U+1E01", <<"U+1E00">>>>,
     <<"U+1E03", <<"U+1E02">>>>, <<"U+1E05", <<"U+1E04">>>>,
     <<"U+1E07", <<"U+1E06">>>>, <<"U+1E09", <<"U+1E08">>>>,
     <<"U+1E0B", <<"U+1E0A">>>>, <<"U+1E0D", <<"U+1E0C">>>>,
     <<"U+1E0F", <<"U+1E0E">>>>, <<"U+1E11", <<"U+1E10">>>>,
     <<"U+1E13", <<"U+1E12">>>>, <<"U+1E15", <<"U+1E14">>>>,
     <<"U+1E17", <<"U+1E16">>>>, <<"U+1E19", <<"U+1E18">>>>,
     <<"U+1E1B", <<"U+1E1A">>>>, <<"U+1E1D", <<"U+1E1C">>>>,
     <<"U+1E1F", <<"U+1E1E">>>>, <<"U+1E21", <<"U+1E20">>>>,
     <<"U+1E23", <<"U+1E22">>>>, <<"U+1E25", <<"U+1E24">>>>,
     <<"U+1E27", <<"U+1E26">>>>, <<"U+1E29", <<"U+1E28">>>>,
     <<"U+1E2B", <<"U+1E2A">>>>, <<"U+1E2D", <<"U+1E2C">>>>,
     <<"U+1E2F", <<"U+1E2E">>>>, <<"U+1E31", <<"U+1E30">>>>,
     <<"U+1E33", <<"U+1E32">>>>, <<"U+1E35", <<"U+1E34">>>>,
     <<"U+1E37", <<"U+1E36">>>>, <<"U+1E39", <<"U+1E38">>>>,
     <<"U+1E3B", <<"U+1E3A">>>>, <<"U+1E3D", <<"U+1E3C">>>>,
     <<"U+1E3F", <<"U+1E3E">>>>, <<"U+1E41", <<"U+1E40">>>>,
     <<"U+1E43", <<"U+1E42">>>>, <<"U+1E45", <<"U+1E44">>>>,
     <<"U+1E47", <<"U+1E46">>>>, <<"U+1E49", <<"U+1E48">>>>,
     <<"U+1E4B", <<"U+1E4A">>>>, <<"U+1E4D", <<"U+1E4C">>>>,
     <<"U+1E4F", <<"U+1E4E">>>>, <<"U+1E51", <<"U+1E50">>>>,
     <<"U+1E53", <<"U+1E52">>>>, <<"U+1E55", <<"U+1E54">>>>,
     <<"U+1E57", <<"U+1E56">>>>, <<"U+1E59", <<"U+1E58">>>>,
     <<"U+1E5B", <<"U+1E5A">>>>, <<"U+1E5D", <<"U+1E5C">>>>,
     <<"U+1E5F", <<"U+1E5E">>>>, <<"U+1E61", <<"U+1E60">>>>,
     <<"U+1E63", <<"U+1E62">>>>, <<"U+1E65", <<"U+1E64">>>>,
     <<"U+1E67", <<"U+1E66">>>>, <<"U+1E69", <<"U+1E68">>>>,
     <<"U+1E6B", <<"U+1E6A">>>>, <<"U+1E6D", <<"U+1E6C">>>>,
     <<"U+1E6F", <<"U+1E6E">>>>, <<"U+1E71", <<"U+1E70">>>>,
     <<"U+1E73", <<"U+1E72">>>>, <<"U+1E75", <<"U+1E74">>>>,
     <<"U+1E77", <<"U+1E76">>>>, <<"U+1E79", <<"U+1E78">>>>,
     <<"U+1E7B", <<"U+1E7A">>>>, <<"U+1E7D", <<"U+1E7C">>>>,
     <<"U+1E7F", <<"U+1E7E">>>>, <<"U+1E81", <<"U+1E80">>>>,
     <<"U+1E83", <<"U+1E82">>>>, <<"U+1E85", <<"U+1E84">>>>,
     <<"U+1E87", <<"U+1E86">>>>, <<"U+1E89", <<"U+1E88">>>>,
     <<"U+1E8B", <<"U+1E8A">>>>, <<"U+1E8D", <<"U+1E8C">>>>,
     <<"U+1E8F", <<"U+1E8E">>>>, <<"U+1E91", <<"U+1E90">>>>,
     <<"U+1E93", <<"U+1E92">>>>, <<"U+1E95", <<"U+1E94">>>>,
     <<"U+1E96", <<"H", "U+0331">>>>, <<"U+1E97", <<"T", "U+0308">>>>,
     <<"U+1E98", <<"W", "U+030A">>>>, <<"U+1E99", <<"Y", "U+030A">>>>,
     <<"U+1E9A", <<"A", "U+02BE">>>>, <<"U+1E9B", <<"U+1E60">>>>,
     <<"U+1EA1", <<"U+1EA0">>>>, <<"U+1EA3", <<"U+1EA2">>>>,
     <<"U+1EA5", <<"U+1EA4">>>>, <<"U+1EA7", <<"U+1EA6">>>>,
     <<"U+1EA9", <<"U+1EA8">>>>, <<"U+1EAB", <<"U+1EAA">>>>,
     <<"U+1EAD", <<"U+1EAC">>>>, <<"U+1EAF", <<"U+1EAE">>>>,
     <<"U+1EB1", <<"U+1EB0">>>>, <<"U+1EB3", <<"U+1EB2">>>>,
     <<"U+1EB5", <<"U+1EB4">>>>, <<"U+1EB7", <<"U+1EB6">>>>,
     <<"U+1EB9", <<"U+1EB8">>>>, <<"U+1EBB", <<"U+1EBA">>>>,
     <<"U+1EBD", <<"U+1EBC">>>>, <<"U+1EBF", <<"U+1EBE">>>>,
     <<"U+1EC1", <<"U+1EC0">>>>, <<"U+1EC3", <<"U+1EC2">>>>,
     <<"U+1EC5", <<"U+1EC4">>>>, <<"U+1EC7", <<"U+1EC6">>>>,
     <<"U+1EC9", <<"U+1EC8">>>>, <<"U+1ECB", <<"U+1ECA">>>>,
     <<"U+1ECD", <<"U+1ECC">>>>, <<"U+1ECF", <<"U+1ECE">>>>,
     <<"U+1ED1", <<"U+1ED0">>>>, <<"U+1ED3", <<"U+1ED2">>>>,
     <<"U+1ED5", <<"U+1ED4">>>>, <<"U+1ED7", <<"U+1ED6">>>>,
     <<"U+1ED9", <<"U+1ED8">>>>, <<"U+1EDB", <<"U+1EDA">>>>,
     <<"U+1EDD", <<"U+1EDC">>>>, <<"U+1EDF", <<"U+1EDE">>>>,
     <<"U+1EE1", <<"U+1EE0">>>>, <<"U+1EE3", <<"U+1EE2">>>>,
     <<"U+1EE5", <<"U+1EE4">>>>, <<"U+1EE7", <<"U+1EE6">>>>,
     <<"U+1EE9", <<"U+1EE8">>>>, <<"U+1EEB", <<"U+1EEA">>>>,
     <<"U+1EED", <<"U+1EEC">>>>, <<"U+1EEF", <<"U+1EEE">>>>,
     <<"U+1EF1", <<"U+1EF0">>>>, <<"U+1EF3", <<"U+1EF2">>>>,
     <<"U+1EF5", <<"U+1EF4">>>>, <<"U+1EF7", <<"U+1EF6">>>>,
     <<"U+1EF9", <<"U+1EF8">>>>, <<"U+1EFB", <<"U+1EFA">>>>,
     <<"U+1EFD", <<"U+1EFC">>>>, <<"U+1EFF", <<"U+1EFE">>>>,
     <<"U+1F00", <<"U+1F08">>>>, <<"U+1F01", <<"U+1F09">>>>,
     <<"U+1F02", <<"U+1F0A">>>>, <<"U+1F03", <<"U+1F0B">>>>,
     <<"U+1F04", <<"U+1F0C">>>>, <<"U+1F05", <<"U+1F0D">>>>,
     <<"U+1F06", <<"U+1F0E">>>>, <<"U+1F07", <<"U+1F0F">>>>,
     <<"U+1F10", <<"U+1F18">>>>, <<"U+1F11", <<"U+1F19">>>>,
     <<"U+1F12", <<"U+1F1A">>>>, <<"U+1F13", <<"U+1F1B">>>>,
     <<"U+1F14", <<"U+1F1C">>>>, <<"U+1F15", <<"U+1F1D">>>>,
     <<"U+1F20", <<"U+1F28">>>>, <<"U+1F21", <<"U+1F29">>>>,
     <<"U+1F22", <<"U+1F2A">>>>, <<"U+1F23", <<"U+1F2B">>>>,
     <<"U+1F24", <<"U+1F2C">>>>, <<"U+1F25", <<"U+1F2D">>>>,
     <<"U+1F26", <<"U+1F2E">>>>, <<"U+1F27", <<"U+1F2F">>>>,
     <<"U+1F30", <<"U+1F38">>>>, <<"U+1F31", <<"U+1F39">>>>,
     <<"U+1F32", <<"U+1F3A">>>>, <<"U+1F33", <<"U+1F3B">>>>,
     <<"U+1F34", <<"U+1F3C">>>>, <<"U+1F35", <<"U+1F3D">>>>,
     <<"U+1F36", <<"U+1F3E">>>>, <<"U+1F37", <<"U+1F3F">>>>,
     <<"U+1F40", <<"U+1F48">>>>, <<"U+1F41", <<"U+1F49">>>>,
     <<"U+1F42", <<"U+1F4A">>>>, <<"U+1F43", <<"U+1F4B">>>>,
     <<"U+1F44", <<"U+1F4C">>>>, <<"U+1F45", <<"U+1F4D">>>>,
     <<"U+1F50", <<"U+03A5", "U+0313">>>>, <<"U+1F51", <<"U+1F59">>>>,
     <<"U+1F52", <<"U+03A5", "U+0313", "U+0300">>>>,
     <<"U+1F53", <<"U+1F5B">>>>,
     <<"U+1F54", <<"U+03A5", "U+0313", "U+0301">>>>,
     <<"U+1F55", <<"U+1F5D">>>>,
     <<"U+1F56", <<"U+03A5", "U+0313", "U+0342">>>>,
     <<"U+1F57", <<"U+1F5F">>>>, <<"U+1F60", <<"U+1F68">>>>,
     <<"U+1F61", <<"U+1F69">>>>, <<"U+1F62", <<"U+1F6A">>>>,
     <<"U+1F63", <<"U+1F6B">>>>, <<"U+1F64", <<"U+1F6C">>>>,
     <<"U+1F65", <<"U+1F6D">>>>, <<"U+1F66", <<"U+1F6E">>>>,
     <<"U+1F67", <<"U+1F6F">>>>, <<"U+1F70", <<"U+1FBA">>>>,
     <<"U+1F71", <<"U+1FBB">>>>, <<"U+1F72", <<"U+1FC8">>>>,
     <<"U+1F73", <<"U+1FC9">>>>, <<"U+1F74", <<"U+1FCA">>>>,
     <<"U+1F75", <<"U+1FCB">>>>, <<"U+1F76", <<"U+1FDA">>>>,
     <<"U+1F77", <<"U+1FDB">>>>, <<"U+1F78", <<"U+1FF8">>>>,
     <<"U+1F79", <<"U+1FF9">>>>, <<"U+1F7A", <<"U+1FEA">>>>,
     <<"U+1F7B", <<"U+1FEB">>>>, <<"U+1F7C", <<"U+1FFA">>>>,
     <<"U+1F7D", <<"U+1FFB">>>>, <<"U+1F80", <<"U+1F08", "U+0399">>>>,
     <<"U+1F81", <<"U+1F09", "U+0399">>>>,
     <<"U+1F82", <<"U+1F0A", "U+0399">>>>,
     <<"U+1F83", <<"U+1F0B", "U+0399">>>>,
     <<"U+1F84", <<"U+1F0C", "U+0399">>>>,
     <<"U+1F85", <<"U+1F0D", "U+0399">>>>,
     <<"U+1F86", <<"U+1F0E", "U+0399">>>>,
     <<"U+1F87", <<"U+1F0F", "U+0399">>>>,
     <<"U+1F88", <<"U+1F08", "U+0399">>>>,
     <<"U+1F89", <<"U+1F09", "U+0399">>>>,
     <<"U+1F8A", <<"U+1F0A", "U+0399">>>>,
     <<"U+1F8B", <<"U+1F0B", "U+0399">>>>,
     <<"U+1F8C", <<"U+1F0C", "U+0399">>>>,
     <<"U+1F8D", <<"U+1F0D", "U+0399">>>>,
     <<"U+1F8E", <<"U+1F0E", "U+0399">>>>,
     <<"U+1F8F", <<"U+1F0F", "U+0399">>>>,
     <<"U+1F90", <<"U+1F28", "U+0399">>>>,
     <<"U+1F91", <<"U+1F29", "U+0399">>>>,
     <<"U+1F92", <<"U+1F2A", "U+0399">>>>,
     <<"U+1F93", <<"U+1F2B", "U+0399">>>>,
     <<"U+1F94", <<"U+1F2C", "U+0399">>>>,
     <<"U+1F95", <<"U+1F2D", "U+0399">>>>,
     <<"U+1F96", <<"U+1F2E", "U+0399">>>>,
     <<"U+1F97", <<"U+1F2F", "U+0399">>>>,
     <<"U+1F98", <<"U+1F28", "U+0399">>>>,
     <<"U+1F99", <<"U+1F29", "U+0399">>>>,
     <<"U+1F9A", <<"U+1F2A", "U+0399">>>>,
     <<"U+1F9B", <<"U+1F2B", "U+0399">>>>,
     <<"U+1F9C", <<"U+1F2C", "U+0399">>>>,
     <<"U+1F9D", <<"U+1F2D", "U+0399">>>>,
     <<"U+1F9E", <<"U+1F2E", "U+0399">>>>,
     <<"U+1F9F", <<"U+1F2F", "U+0399">>>>,
     <<"U+1FA0", <<"U+1F68", "U+0399">>>>,
     <<"U+1FA1", <<"U+1F69", "U+0399">>>>,
     <<"U+1FA2", <<"U+1F6A", "U+0399">>>>,
     <<"U+1FA3", <<"U+1F6B", "U+0399">>>>,
     <<"U+1FA4", <<"U+1F6C", "U+0399">>>>,
     <<"U+1FA5", <<"U+1F6D", "U+0399">>>>,
     <<"U+1FA6", <<"U+1F6E", "U+0399">>>>,
     <<"U+1FA7", <<"U+1F6F", "U+0399">>>>,
     <<"U+1FA8", <<"U+1F68", "U+0399">>>>,
     <<"U+1FA9", <<"U+1F69", "U+0399">>>>,
     <<"U+1FAA", <<"U+1F6A", "U+0399">>>>,
     <<"U+1FAB", <<"U+1F6B", "U+0399">>>>,
     <<"U+1FAC", <<"U+1F6C", "U+0399">>>>,
     <<"U+1FAD", <<"U+1F6D", "U+0399">>>>,
     <<"U+1FAE", <<"U+1F6E", "U+0399">>>>,
     <<"U+1FAF", <<"U+1F6F", "U+0399">>>>, <<"U+1FB0", <<"U+1FB8">>>>,
     <<"U+1FB1", <<"U+1FB9">>>>, <<"U+1FB2", <<"U+1FBA", "U+0399">>>>,
     <<"U+1FB3", <<"U+0391", "U+0399">>>>,
     <<"U+1FB4", <<"U+0386", "U+0399">>>>,
     <<"U+1FB6", <<"U+0391", "U+0342">>>>,
     <<"U+1FB7", <<"U+0391", "U+0342", "U+0399">>>>,
     <<"U+1FBC", <<"U+0391", "U+0399">>>>, <<"U+1FBE", <<"U+0399">>>>,
     <<"U+1FC2", <<"U+1FCA", "U+0399">>>>,
     <<"U+1FC3", <<"U+0397", "U+0399">>>>,
     <<"U+1FC4", <<"U+0389", "U+0399">>>>,
     <<"U+1FC6", <<"U+0397", "U+0342">>>>,
     <<"U+1FC7", <<"U+0397", "U+0342", "U+0399">>>>,
     <<"U+1FCC", <<"U+0397", "U+0399">>>>, <<"U+1FD0", <<"U+1FD8">>>>,
     <<"U+1FD1", <<"U+1FD9">>>>,
     <<"U+1FD2", <<"U+0399", "U+0308", "U+0300">>>>,
     <<"U+1FD3", <<"U+0399", "U+0308", "U+0301">>>>,
     <<"U+1FD6", <<"U+0399", "U+0342">>>>,
     <<"U+1FD7", <<"U+0399", "U+0308", "U+0342">>>>,
     <<"U+1FE0", <<"U+1FE8">>>>, <<"U+1FE1", <<"U+1FE9">>>>,
     <<"U+1FE2", <<"U+03A5", "U+0308", "U+0300">>>>,
     <<"U+1FE3", <<"U+03A5", "U+0308", "U+0301">>>>,
     <<"U+1FE4", <<"U+03A1", "U+0313">>>>, <<"U+1FE5", <<"U+1FEC">>>>,
     <<"U+1FE6", <<"U+03A5", "U+0342">>>>,
     <<"U+1FE7", <<"U+03A5", "U+0308", "U+0342">>>>,
     <<"U+1FF2", <<"U+1FFA", "U+0399">>>>,
     <<"U+1FF3", <<"U+03A9", "U+0399">>>>,
     <<"U+1FF4", <<"U+038F", "U+0399">>>>,
     <<"U+1FF6", <<"U+03A9", "U+0342">>>>,
     <<"U+1FF7", <<"U+03A9", "U+0342", "U+0399">>>>,
     <<"U+1FFC", <<"U+03A9", "U+0399">>>>, <<"U+214E", <<"U+2132">>>>,
     <<"U+2170", <<"U+2160">>>>, <<"U+2171", <<"U+2161">>>>,
     <<"U+2172", <<"U+2162">>>>, <<"U+2173", <<"U+2163">>>>,
     <<"U+2174", <<"U+2164">>>>, <<"U+2175", <<"U+2165">>>>,
     <<"U+2176", <<"U+2166">>>>, <<"U+2177", <<"U+2167">>>>,
     <<"U+2178", <<"U+2168">>>>, <<"U+2179", <<"U+2169">>>>,
     <<"U+217A", <<"U+216A">>>>, <<"U+217B", <<"U+216B">>>>,
     <<"U+217C", <<"U+216C">>>>, <<"U+217D", <<"U+216D">>>>,
     <<"U+217E", <<"U+216E">>>>, <<"U+217F", <<"U+216F">>>>,
     <<"U+2184", <<"U+2183">>>>, <<"U+24D0", <<"U+24B6">>>>,
     <<"U+24D1", <<"U+24B7">>>>, <<"U+24D2", <<"U+24B8">>>>,
     <<"U+24D3", <<"U+24B9">>>>, <<"U+24D4", <<"U+24BA">>>>,
     <<"U+24D5", <<"U+24BB">>>>, <<"U+24D6", <<"U+24BC">>>>,
     <<"U+24D7", <<"U+24BD">>>>, <<"U+24D8", <<"U+24BE">>>>,
     <<"U+24D9", <<"U+24BF">>>>, <<"U+24DA", <<"U+24C0">>>>,
     <<"U+24DB", <<"U+24C1">>>>, <<"U+24DC", <<"U+24C2">>>>,
     <<"U+24DD", <<"U+24C3">>>>, <<"U+24DE", <<"U+24C4">>>>,
     <<"U+24DF", <<"U+24C5">>>>, <<"U+24E0", <<"U+24C6">>>>,
     <<"U+24E1", <<"U+24C7">>>>, <<"U+24E2", <<"U+24C8">>>>,
     <<"U+24E3", <<"U+24C9">>>>, <<"U+24E4", <<"U+24CA">>>>,
     <<"U+24E5", <<"U+24CB">>>>, <<"U+24E6", <<"U+24CC">>>>,
     <<"U+24E7", <<"U+24CD">>>>, <<"U+24E8", <<"U+24CE">>>>,
     <<"U+24E9", <<"U+24CF">>>>, <<"U+2C30", <<"U+2C00">>>>,
     <<"U+2C31", <<"U+2C01">>>>, <<"U+2C32", <<"U+2C02">>>>,
     <<"U+2C33", <<"U+2C03">>>>, <<"U+2C34", <<"U+2C04">>>>,
     <<"U+2C35", <<"U+2C05">>>>, <<"U+2C36", <<"U+2C06">>>>,
     <<"U+2C37", <<"U+2C07">>>>, <<"U+2C38", <<"U+2C08">>>>,
     <<"U+2C39", <<"U+2C09">>>>, <<"U+2C3A", <<"U+2C0A">>>>,
     <<"U+2C3B", <<"U+2C0B">>>>, <<"U+2C3C", <<"U+2C0C">>>>,
     <<"U+2C3D", <<"U+2C0D">>>>, <<"U+2C3E", <<"U+2C0E">>>>,
     <<"U+2C3F", <<"U+2C0F">>>>, <<"U+2C40", <<"U+2C10">>>>,
     <<"U+2C41", <<"U+2C11">>>>, <<"U+2C42", <<"U+2C12">>>>,
     <<"U+2C43", <<"U+2C13">>>>, <<"U+2C44", <<"U+2C14">>>>,
     <<"U+2C45", <<"U+2C15">>>>, <<"U+2C46", <<"U+2C16">>>>,
     <<"U+2C47", <<"U+2C17">>>>, <<"U+2C48", <<"U+2C18">>>>,
     <<"U+2C49", <<"U+2C19">>>>, <<"U+2C4A", <<"U+2C1A">>>>,
     <<"U+2C4B", <<"U+2C1B">>>>, <<"U+2C4C", <<"U+2C1C">>>>,
     <<"U+2C4D", <<"U+2C1D">>>>, <<"U+2C4E", <<"U+2C1E">>>>,
     <<"U+2C4F", <<"U+2C1F">>>>, <<"U+2C50", <<"U+2C20">>>>,
     <<"U+2C51", <<"U+2C21">>>>, <<"U+2C52", <<"U+2C22">>>>,
     <<"U+2C53", <<"U+2C23">>>>, <<"U+2C54", <<"U+2C24">>>>,
     <<"U+2C55", <<"U+2C25">>>>, <<"U+2C56", <<"U+2C26">>>>,
     <<"U+2C57", <<"U+2C27">>>>, <<"U+2C58", <<"U+2C28">>>>,
     <<"U+2C59", <<"U+2C29">>>>, <<"U+2C5A", <<"U+2C2A">>>>,
     <<"U+2C5B", <<"U+2C2B">>>>, <<"U+2C5C", <<"U+2C2C">>>>,
     <<"U+2C5D", <<"U+2C2D">>>>, <<"U+2C5E", <<"U+2C2E">>>>,
     <<"U+2C5F", <<"U+2C2F">>>>, <<"U+2C61", <<"U+2C60">>>>,
     <<"U+2C65", <<"U+023A">>>>, <<"U+2C66", <<"U+023E">>>>,
     <<"U+2C68", <<"U+2C67">>>>, <<"U+2C6A", <<"U+2C69">>>>,
     <<"U+2C6C", <<"U+2C6B">>>>, <<"U+2C73", <<"U+2C72">>>>,
     <<"U+2C76", <<"U+2C75">>>>, <<"U+2C81", <<"U+2C80">>>>,
     <<"U+2C83", <<"U+2C82">>>>, <<"U+2C85", <<"U+2C84">>>>,
     <<"U+2C87", <<"U+2C86">>>>, <<"U+2C89", <<"U+2C88">>>>,
     <<"U+2C8B", <<"U+2C8A">>>>, <<"U+2C8D", <<"U+2C8C">>>>,
     <<"U+2C8F", <<"U+2C8E">>>>, <<"U+2C91", <<"U+2C90">>>>,
     <<"U+2C93", <<"U+2C92">>>>, <<"U+2C95", <<"U+2C94">>>>,
     <<"U+2C97", <<"U+2C96">>>>, <<"U+2C99", <<"U+2C98">>>>,
     <<"U+2C9B", <<"U+2C9A">>>>, <<"U+2C9D", <<"U+2C9C">>>>,
     <<"U+2C9F", <<"U+2C9E">>>>, <<"U+2CA1", <<"U+2CA0">>>>,
     <<"U+2CA3", <<"U+2CA2">>>>, <<"U+2CA5", <<"U+2CA4">>>>,
     <<"U+2CA7", <<"U+2CA6">>>>, <<"U+2CA9", <<"U+2CA8">>>>,
     <<"U+2CAB", <<"U+2CAA">>>>, <<"U+2CAD", <<"U+2CAC">>>>,
     <<"U+2CAF", <<"U+2CAE">>>>, <<"U+2CB1", <<"U+2CB0">>>>,
     <<"U+2CB3", <<"U+2CB2">>>>, <<"U+2CB5", <<"U+2CB4">>>>,
     <<"U+2CB7", <<"U+2CB6">>>>, <<"U+2CB9", <<"U+2CB8">>>>,
     <<"U+2CBB", <<"U+2CBA">>>>, <<"U+2CBD", <<"U+2CBC">>>>,
     <<"U+2CBF", <<"U+2CBE">>>>, <<"U+2CC1", <<"U+2CC0">>>>,
     <<"U+2CC3", <<"U+2CC2">>>>, <<"U+2CC5", <<"U+2CC4">>>>,
     <<"U+2CC7", <<"U+2CC6">>>>, <<"U+2CC9", <<"U+2CC8">>>>,
     <<"U+2CCB", <<"U+2CCA">>>>, <<"U+2CCD", <<"U+2CCC">>>>,
     <<"U+2CCF", <<"U+2CCE">>>>, <<"U+2CD1", <<"U+2CD0">>>>,
     <<"U+2CD3", <<"U+2CD2">>>>, <<"U+2CD5", <<"U+2CD4">>>>,
     <<"U+2CD7", <<"U+2CD6">>>>, <<"U+2CD9", <<"U+2CD8">>>>,
     <<"U+2CDB", <<"U+2CDA">>>>, <<"U+2CDD", <<"U+2CDC">>>>,
     <<"U+2CDF", <<"U+2CDE">>>>, <<"U+2CE1", <<"U+2CE0">>>>,
     <<"U+2CE3", <<"U+2CE2">>>>, <<"U+2CEC", <<"U+2CEB">>>>,
     <<"U+2CEE", <<"U+2CED">>>>, <<"U+2CF3", <<"U+2CF2">>>>,
     <<"U+2D00", <<"U+10A0">>>>, <<"U+2D01", <<"U+10A1">>>>,
     <<"U+2D02", <<"U+10A2">>>>, <<"U+2D03", <<"U+10A3">>>>,
     <<"U+2D04", <<"U+10A4">>>>, <<"U+2D05", <<"U+10A5">>>>,
     <<"U+2D06", <<"U+10A6">>>>, <<"U+2D07", <<"U+10A7">>>>,
     <<"U+2D08", <<"U+10A8">>>>, <<"U+2D09", <<"U+10A9">>>>,
     <<"U+2D0A", <<"U+10AA">>>>, <<"U+2D0B", <<"U+10AB">>>>,
     <<"U+2D0C", <<"U+10AC">>>>, <<"U+2D0D", <<"U+10AD">>>>,
     <<"U+2D0E", <<"U+10AE">>>>, <<"U+2D0F", <<"U+10AF">>>>,
     <<"U+2D10", <<"U+10B0">>>>, <<"U+2D11", <<"U+10B1">>>>,
     <<"U+2D12", <<"U+10B2">>>>, <<"U+2D13", <<"U+10B3">>>>,
     <<"U+2D14", <<"U+10B4">>>>, <<"U+2D15", <<"U+10B5">>>>,
     <<"U+2D16", <<"U+10B6">>>>, <<"U+2D17", <<"U+10B7">>>>,
     <<"U+2D18", <<"U+10B8">>>>, <<"U+2D19", <<"U+10B9">>>>,
     <<"U+2D1A", <<"U+10BA">>>>, <<"U+2D1B", <<"U+10BB">>>>,
     <<"U+2D1C", <<"U+10BC">>>>, <<"U+2D1D", <<"U+10BD">>>>,
     <<"U+2D1E", <<"U+10BE">>>>, <<"U+2D1F", <<"U+10BF">>>>,
     <<"U+2D20", <<"U+10C0">>>>, <<"U+2D21", <<"U+10C1">>>>,
     <<"U+2D22", <<"U+10C2">>>>, <<"U+2D23", <<"U+10C3">>>>,
     <<"U+2D24", <<"U+10C4">>>>, <<"U+2D25", <<"U+10C5">>>>,
     <<"U+2D27", <<"U+10C7">>>>, <<"U+2D2D", <<"U+10CD">>>>,
     <<"U+A641", <<"U+A640">>>>, <<"U+A643", <<"U+A642">>>>,
     <<"U+A645", <<"U+A644">>>>, <<"U+A647", <<"U+A646">>>>,
     <<"U+A649", <<"U+A648">>>>, <<"U+A64B", <<"U+A64A">>>>,
     <<"U+A64D", <<"U+A64C">>>>, <<"U+A64F", <<"U+A64E">>>>,
     <<"U+A651", <<"U+A650">>>>, <<"U+A653", <<"U+A652">>>>,
     <<"U+A655", <<"U+A654">>>>, <<"U+A657", <<"U+A656">>>>,
     <<"U+A659", <<"U+A658">>>>, <<"U+A65B", <<"U+A65A">>>>,
     <<"U+A65D", <<"U+A65C">>>>, <<"U+A65F", <<"U+A65E">>>>,
     <<"U+A661", <<"U+A660">>>>, <<"U+A663", <<"U+A662">>>>,
     <<"U+A665", <<"U+A664">>>>, <<"U+A667", <<"U+A666">>>>,
     <<"U+A669", <<"U+A668">>>>, <<"U+A66B", <<"U+A66A">>>>,
     <<"U+A66D", <<"U+A66C">>>>, <<"U+A681", <<"U+A680">>>>,
     <<"U+A683", <<"U+A682">>>>, <<"U+A685", <<"U+A684">>>>,
     <<"U+A687", <<"U+A686">>>>, <<"U+A689", <<"U+A688">>>>,
     <<"U+A68B", <<"U+A68A">>>>, <<"U+A68D", <<"U+A68C">>>>,
     <<"U+A68F", <<"U+A68E">>>>, <<"U+A691", <<"U+A690">>>>,
     <<"U+A693", <<"U+A692">>>>, <<"U+A695", <<"U+A694">>>>,
     <<"U+A697", <<"U+A696">>>>, <<"U+A699", <<"U+A698">>>>,
     <<"U+A69B", <<"U+A69A">>>>, <<"U+A723", <<"U+A722">>>>,
     <<"U+A725", <<"U+A724">>>>, <<"U+A727", <<"U+A726">>>>,
     <<"U+A729", <<"U+A728">>>>, <<"U+A72B", <<"U+A72A">>>>,
     <<"U+A72D", <<"U+A72C">>>>, <<"U+A72F", <<"U+A72E">>>>,
     <<"U+A733", <<"U+A732">>>>, <<"U+A735", <<"U+A734">>>>,
     <<"U+A737", <<"U+A736">>>>, <<"U+A739", <<"U+A738">>>>,
     <<"U+A73B", <<"U+A73A">>>>, <<"U+A73D", <<"U+A73C">>>>,
     <<"U+A73F", <<"U+A73E">>>>, <<"U+A741", <<"U+A740">>>>,
     <<"U+A743", <<"U+A742">>>>, <<"U+A745", <<"U+A744">>>>,
     <<"U+A747", <<"U+A746">>>>, <<"U+A749", <<"U+A748">>>>,
     <<"U+A74B", <<"U+A74A">>>>, <<"U+A74D", <<"U+A74C">>>>,
     <<"U+A74F", <<"U+A74E">>>>, <<"U+A751", <<"U+A750">>>>,
     <<"U+A753", <<"U+A752">>>>, <<"U+A755", <<"U+A754">>>>,
     <<"U+A757", <<"U+A756">>>>, <<"U+A759", <<"U+A758">>>>,
     <<"U+A75B", <<"U+A75A">>>>, <<"U+A75D", <<"U+A75C">>>>,
     <<"U+A75F", <<"U+A75E">>>>, <<"U+A761", <<"U+A760">>>>,
     <<"U+A763", <<"U+A762">>>>, <<"U+A765", <<"U+A764">>>>,
     <<"U+A767", <<"U+A766">>>>, <<"U+A769", <<"U+A768">>>>,
     <<"U+A76B", <<"U+A76A">>>>, <<"U+A76D", <<"U+A76C">>>>,
     <<"U+A76F", <<"U+A76E">>>>, <<"U+A77A", <<"U+A779">>>>,
     <<"U+A77C", <<"U+A77B">>>>, <<"U+A77F", <<"U+A77E">>>>,
     <<"U+A781", <<"U+A780">>>>, <<"U+A783", <<"U+A782">>>>,
     <<"U+A785", <<"U+A784">>>>, <<"U+A787", <<"U+A786">>>>,
     <<"U+A78C", <<"U+A78B">>>>, <<"U+A791", <<"U+A790">>>>,
     <<"U+A793", <<"U+A792">>>>, <<"U+A794", <<"U+A7C4">>>>,
     <<"U+A797", <<"U+A796">>>>, <<"U+A799", <<"U+A798">>>>,
     <<"U+A79B", <<"U+A79A">>>>, <<"U+A79D", <<"U+A79C">>>>,
     <<"U+A79F", <<"U+A79E">>>>, <<"U+A7A1", <<"U+A7A0">>>>,
     <<"U+A7A3", <<"U+A7A2">>>>, <<"U+A7A5", <<"U+A7A4">>>>,
     <<"U+A7A7", <<"U+A7A6">>>>, <<"U+A7A9", <<"U+A7A8">>>>,
     <<"U+A7B5", <<"U+A7B4">>>>, <<"U+A7B7", <<"U+A7B6">>>>,
     <<"U+A7B9", <<"U+A7B8">>>>, <<"U+A7BB", <<"U+A7BA">>>>,
     <<"U+A7BD", <<"U+A7BC">>>>, <<"U+A7BF", <<"U+A7BE">>>>,
     <<"U+A7C1", <<"U+A7C0">>>>, <<"U+A7C3", <<"U+A7C2">>>>,
     <<"U+A7C8", <<"U+A7C7">>>>, <<"U+A7CA", <<"U+A7C9">>>>,
     <<"U+A7D1", <<"U+A7D0">>>>, <<"U+A7D7", <<"U+A7D6">>>>,
     <<"U+A7D9", <<"U+A7D8">>>>, <<"U+A7F6", <<"U+A7F5">>>>,
     <<"U+AB53", <<"U+A7B3">>>>, <<"U+AB70", <<"U+13A0">>>>,
     <<"U+AB71", <<"U+13A1">>>>, <<"U+AB72", <<"U+13A2">>>>,
     <<"U+AB73", <<"U+13A3">>>>, <<"U+AB74", <<"U+13A4">>>>,
     <<"U+AB75", <<"U+13A5">>>>, <<"U+AB76", <<"U+13A6">>>>,
     <<"U+AB77", <<"U+13A7">>>>, <<"U+AB78", <<"U+13A8">>>>,
     <<"U+AB79", <<"U+13A9">>>>, <<"U+AB7A", <<"U+13AA">>>>,
     <<"U+AB7B", <<"U+13AB">>>>, <<"U+AB7C", <<"U+13AC">>>>,
     <<"U+AB7D", <<"U+13AD">>>>, <<"U+AB7E", <<"U+13AE">>>>,
     <<"U+AB7F", <<"U+13AF">>>>, <<"U+AB80", <<"U+13B0">>>>,
     <<"U+AB81", <<"U+13B1">>>>, <<"U+AB82", <<"U+13B2">>>>,
     <<"U+AB83", <<"U+13B3">>>>, <<"U+AB84", <<"U+13B4">>>>,
     <<"U+AB85", <<"U+13B5">>>>, <<"U+AB86", <<"U+13B6">>>>,
     <<"U+AB87", <<"U+13B7">>>>, <<"U+AB88", <<"U+13B8">>>>,
     <<"U+AB89", <<"U+13B9">>>>, <<"U+AB8A", <<"U+13BA">>>>,
     <<"U+AB8B", <<"U+13BB">>>>, <<"U+AB8C", <<"U+13BC">>>>,
     <<"U+AB8D", <<"U+13BD">>>>, <<"U+AB8E", <<"U+13BE">>>>,
     <<"U+AB8F", <<"U+13BF">>>>, <<"U+AB90", <<"U+13C0">>>>,
     <<"U+AB91", <<"U+13C1">>>>, <<"U+AB92", <<"U+13C2">>>>,
     <<"U+AB93", <<"U+13C3">>>>, <<"U+AB94", <<"U+13C4">>>>,
     <<"U+AB95", <<"U+13C5">>>>, <<"U+AB96", <<"U+13C6">>>>,
     <<"U+AB97", <<"U+13C7">>>>, <<"U+AB98", <<"U+13C8">>>>,
     <<"U+AB99", <<"U+13C9">>>>, <<"U+AB9A", <<"U+13CA">>>>,
     <<"U+AB9B", <<"U+13CB">>>>, <<"U+AB9C", <<"U+13CC">>>>,
     <<"U+AB9D", <<"U+13CD">>>>, <<"U+AB9E", <<"U+13CE">>>>,
     <<"U+AB9F", <<"U+13CF">>>>, <<"U+ABA0", <<"U+13D0">>>>,
     <<"U+ABA1", <<"U+13D1">>>>, <<"U+ABA2", <<"U+13D2">>>>,
     <<"U+ABA3", <<"U+13D3">>>>, <<"U+ABA4", <<"U+13D4">>>>,
     <<"U+ABA5", <<"U+13D5">>>>, <<"U+ABA6", <<"U+13D6">>>>,
     <<"U+ABA7", <<"U+13D7">>>>, <<"U+ABA8", <<"U+13D8">>>>,
     <<"U+ABA9", <<"U+13D9">>>>, <<"U+ABAA", <<"U+13DA">>>>,
     <<"U+ABAB", <<"U+13DB">>>>, <<"U+ABAC", <<"U+13DC">>>>,
     <<"U+ABAD", <<"U+13DD">>>>, <<"U+ABAE", <<"U+13DE">>>>,
     <<"U+ABAF", <<"U+13DF">>>>, <<"U+ABB0", <<"U+13E0">>>>,
     <<"U+ABB1", <<"U+13E1">>>>, <<"U+ABB2", <<"U+13E2">>>>,
     <<"U+ABB3", <<"U+13E3">>>>, <<"U+ABB4", <<"U+13E4">>>>,
     <<"U+ABB5", <<"U+13E5">>>>, <<"U+ABB6", <<"U+13E6">>>>,
     <<"U+ABB7", <<"U+13E7">>>>, <<"U+ABB8", <<"U+13E8">>>>,
     <<"U+ABB9", <<"U+13E9">>>>, <<"U+ABBA", <<"U+13EA">>>>,
     <<"U+ABBB", <<"U+13EB">>>>, <<"U+ABBC", <<"U+13EC">>>>,
     <<"U+ABBD", <<"U+13ED">>>>, <<"U+ABBE", <<"U+13EE">>>>,
     <<"U+ABBF", <<"U+13EF">>>>, <<"U+FB00", <<"F", "F">>>>,
     <<"U+FB01", <<"F", "I">>>>, <<"U+FB02", <<"F", "L">>>>,
     <<"U+FB03", <<"F", "F", "I">>>>, <<"U+FB04", <<"F", "F", "L">>>>,
     <<"U+FB05", <<"S", "T">>>>, <<"U+FB06", <<"S", "T">>>>,
     <<"U+FB13", <<"U+0544", "U+0546">>>>,
     <<"U+FB14", <<"U+0544", "U+0535">>>>,
     <<"U+FB15", <<"U+0544", "U+053B">>>>,
     <<"U+FB16", <<"U+054E", "U+0546">>>>,
     <<"U+FB17", <<"U+0544", "U+053D">>>>, <<"U+FF41", <<"U+FF21">>>>,
     <<"U+FF42", <<"U+FF22">>>>, <<"U+FF43", <<"U+FF23">>>>,
     <<"U+FF44", <<"U+FF24">>>>, <<"U+FF45", <<"U+FF25">>>>,
     <<"U+FF46", <<"U+FF26">>>>, <<"U+FF47", <<"U+FF27">>>>,
     <<"U+FF48", <<"U+FF28">>>>, <<"U+FF49", <<"U+FF29">>>>,
     <<"U+FF4A", <<"U+FF2A">>>>, <<"U+FF4B", <<"U+FF2B">>>>,
     <<"U+FF4C", <<"U+FF2C">>>>, <<"U+FF4D", <<"U+FF2D">>>>,
     <<"U+FF4E", <<"U+FF2E">>>>, <<"U+FF4F", <<"U+FF2F">>>>,
     <<"U+FF50", <<"U+FF30">>>>, <<"U+FF51", <<"U+FF31">>>>,
     <<"U+FF52", <<"U+FF32">>>>, <<"U+FF53", <<"U+FF33">>>>,
     <<"U+FF54", <<"U+FF34">>>>, <<"U+FF55", <<"U+FF35">>>>,
     <<"U+FF56", <<"U+FF36">>>>, <<"U+FF57", <<"U+FF37">>>>,
     <<"U+FF58", <<"U+FF38">>>>, <<"U+FF59", <<"U+FF39">>>>,
     <<"U+FF5A", <<"U+FF3A">>>>, <<"U+10428", <<"U+10400">>>>,
     <<"U+10429", <<"U+10401">>>>, <<"U+1042A", <<"U+10402">>>>,
     <<"U+1042B", <<"U+10403">>>>, <<"U+1042C", <<"U+10404">>>>,
     <<"U+1042D", <<"U+10405">>>>, <<"U+1042E", <<"U+10406">>>>,
     <<"U+1042F", <<"U+10407">>>>, <<"U+10430", <<"U+10408">>>>,
     <<"U+10431", <<"U+10409">>>>, <<"U+10432", <<"U+1040A">>>>,
     <<"U+10433", <<"U+1040B">>>>, <<"U+10434", <<"U+1040C">>>>,
     <<"U+10435", <<"U+1040D">>>>, <<"U+10436", <<"U+1040E">>>>,
     <<"U+10437", <<"U+1040F">>>>, <<"U+10438", <<"U+10410">>>>,
     <<"U+10439", <<"U+10411">>>>, <<"U+1043A", <<"U+10412">>>>,
     <<"U+1043B", <<"U+10413">>>>, <<"U+1043C", <<"U+10414">>>>,
     <<"U+1043D", <<"U+10415">>>>, <<"U+1043E", <<"U+10416">>>>,
     <<"U+1043F", <<"U+10417">>>>, <<"U+10440", <<"U+10418">>>>,
     <<"U+10441", <<"U+10419">>>>, <<"U+10442", <<"U+1041A">>>>,
     <<"U+10443", <<"U+1041B">>>>, <<"U+10444", <<"U+1041C">>>>,
     <<"U+10445", <<"U+1041D">>>>, <<"U+10446", <<"U+1041E">>>>,
     <<"U+10447", <<"U+1041F">>>>, <<"U+10448", <<"U+10420">>>>,
     <<"U+10449", <<"U+10421">>>>, <<"U+1044A", <<"U+10422">>>>,
     <<"U+1044B", <<"U+10423">>>>, <<"U+1044C", <<"U+10424">>>>,
     <<"U+1044D", <<"U+10425">>>>, <<"U+1044E", <<"U+10426">>>>,
     <<"U+1044F", <<"U+10427">>>>, <<"U+104D8", <<"U+104B0">>>>,
     <<"U+104D9", <<"U+104B1">>>>, <<"U+104DA", <<"U+104B2">>>>,
     <<"U+104DB", <<"U+104B3">>>>, <<"U+104DC", <<"U+104B4">>>>,
     <<"U+104DD", <<"U+104B5">>>>, <<"U+104DE", <<"U+104B6">>>>,
     <<"U+104DF", <<"U+104B7">>>>, <<"U+104E0", <<"U+104B8">>>>,
     <<"U+104E1", <<"U+104B9">>>>, <<"U+104E2", <<"U+104BA">>>>,
     <<"U+104E3", <<"U+104BB">>>>, <<"U+104E4", <<"U+104BC">>>>,
     <<"U+104E5", <<"U+104BD">>>>, <<"U+104E6", <<"U+104BE">>>>,
     <<"U+104E7", <<"U+104BF">>>>, <<"U+104E8", <<"U+104C0">>>>,
     <<"U+104E9", <<"U+104C1">>>>, <<"U+104EA", <<"U+104C2">>>>,
     <<"U+104EB", <<"U+104C3">>>>, <<"U+104EC", <<"U+104C4">>>>,
     <<"U+104ED", <<"U+104C5">>>>, <<"U+104EE", <<"U+104C6">>>>,
     <<"U+104EF", <<"U+104C7">>>>, <<"U+104F0", <<"U+104C8">>>>,
     <<"U+104F1", <<"U+104C9">>>>, <<"U+104F2", <<"U+104CA">>>>,
     <<"U+104F3", <<"U+104CB">>>>, <<"U+104F4", <<"U+104CC">>>>,
     <<"U+104F5", <<"U+104CD">>>>, <<"U+104F6", <<"U+104CE">>>>,
     <<"U+104F7", <<"U+104CF">>>>, <<"U+104F8", <<"U+104D0">>>>,
     <<"U+104F9", <<"U+104D1">>>>, <<"U+104FA", <<"U+104D2">>>>,
     <<"U+104FB", <<"U+104D3">>>>, <<"U+10597", <<"U+10570">>>>,
     <<"U+10598", <<"U+10571">>>>, <<"U+10599", <<"U+10572">>>>,
     <<"U+1059A", <<"U+10573">>>>, <<"U+1059B", <<"U+10574">>>>,
     <<"U+1059C", <<"U+10575">>>>, <<"U+1059D", <<"U+10576">>>>,
     <<"U+1059E", <<"U+10577">>>>, <<"U+1059F", <<"U+10578">>>>,
     <<"U+105A0", <<"U+10579">>>>, <<"U+105A1", <<"U+1057A">>>>,
     <<"U+105A3", <<"U+1057C">>>>, <<"U+105A4", <<"U+1057D">>>>,
     <<"U+105A5", <<"U+1057E">>>>, <<"U+105A6", <<"U+1057F">>>>,
     <<"U+105A7", <<"U+10580">>>>, <<"U+105A8", <<"U+10581">>>>,
     <<"U+105A9", <<"U+10582">>>>, <<"U+105AA", <<"U+10583">>>>,
     <<"U+105AB", <<"U+10584">>>>, <<"U+105AC", <<"U+10585">>>>,
     <<"U+105AD", <<"U+10586">>>>, <<"U+105AE", <<"U+10587">>>>,
     <<"U+105AF", <<"U+10588">>>>, <<"U+105B0", <<"U+10589">>>>,
     <<"U+105B1", <<"U+1058A">>>>, <<"U+105B3", <<"U+1058C">>>>,
     <<"U+105B4", <<"U+1058D">>>>, <<"U+105B5", <<"U+1058E">>>>,
     <<"U+105B6", <<"U+1058F">>>>, <<"U+105B7", <<"U+10590">>>>,
     <<"U+105B8", <<"U+10591">>>>, <<"U+105B9", <<"U+10592">>>>,
     <<"U+105BB", <<"U+10594">>>>, <<"U+105BC", <<"U+10595">>>>,
     <<"U+10CC0", <<"U+10C80">>>>, <<"U+10CC1", <<"U+10C81">>>>,
     <<"U+10CC2", <<"U+10C82">>>>, <<"U+10CC3", <<"U+10C83">>>>,
     <<"U+10CC4", <<"U+10C84">>>>, <<"U+10CC5", <<"U+10C85">>>>,
     <<"U+10CC6", <<"U+10C86">>>>, <<"U+10CC7", <<"U+10C87">>>>,
     <<"U+10CC8", <<"U+10C88">>>>, <<"U+10CC9", <<"U+10C89">>>>,
     <<"U+10CCA", <<"U+10C8A">>>>, <<"U+10CCB", <<"U+10C8B">>>>,
     <<"U+10CCC", <<"U+10C8C">>>>, <<"U+10CCD", <<"U+10C8D">>>>,
     <<"U+10CCE", <<"U+10C8E">>>>, <<"U+10CCF", <<"U+10C8F">>>>,
     <<"U+10CD0", <<"U+10C90">>>>, <<"U+10CD1", <<"U+10C91">>>>,
     <<"U+10CD2", <<"U+10C92">>>>, <<"U+10CD3", <<"U+10C93">>>>,
     <<"U+10CD4", <<"U+10C94">>>>, <<"U+10CD5", <<"U+10C95">>>>,
     <<"U+10CD6", <<"U+10C96">>>>, <<"U+10CD7", <<"U+10C97">>>>,
     <<"U+10CD8", <<"U+10C98">>>>, <<"U+10CD9", <<"U+10C99">>>>,
     <<"U+10CDA", <<"U+10C9A">>>>, <<"U+10CDB", <<"U+10C9B">>>>,
     <<"U+10CDC", <<"U+10C9C">>>>, <<"U+10CDD", <<"U+10C9D">>>>,
     <<"U+10CDE", <<"U+10C9E">>>>, <<"U+10CDF", <<"U+10C9F">>>>,
     <<"U+10CE0", <<"U+10CA0">>>>, <<"U+10CE1", <<"U+10CA1">>>>,
     <<"U+10CE2", <<"U+10CA2">>>>, <<"U+10CE3", <<"U+10CA3">>>>,
     <<"U+10CE4", <<"U+10CA4">>>>, <<"U+10CE5", <<"U+10CA5">>>>,
     <<"U+10CE6", <<"U+10CA6">>>>, <<"U+10CE7", <<"U+10CA7">>>>,
     <<"U+10CE8", <<"U+10CA8">>>>, <<"U+10CE9", <<"U+10CA9">>>>,
     <<"U+10CEA", <<"U+10CAA">>>>, <<"U+10CEB", <<"U+10CAB">>>>,
     <<"U+10CEC", <<"U+10CAC">>>>, <<"U+10CED", <<"U+10CAD">>>>,
     <<"U+10CEE", <<"U+10CAE">>>>, <<"U+10CEF", <<"U+10CAF">>>>,
     <<"U+10CF0", <<"U+10CB0">>>>, <<"U+10CF1", <<"U+10CB1">>>>,
     <<"U+10CF2", <<"U+10CB2">>>>, <<"U+118C0", <<"U+118A0">>>>,
     <<"U+118C1", <<"U+118A1">>>>, <<"U+118C2", <<"U+118A2">>>>,
     <<"U+118C3", <<"U+118A3">>>>, <<"U+118C4", <<"U+118A4">>>>,
     <<"U+118C5", <<"U+118A5">>>>, <<"U+118C6", <<"U+118A6">>>>,
     <<"U+118C7", <<"U+118A7">>>>, <<"U+118C8", <<"U+118A8">>>>,
     <<"U+118C9", <<"U+118A9">>>>, <<"U+118CA", <<"U+118AA">>>>,
     <<"U+118CB", <<"U+118AB">>>>, <<"U+118CC", <<"U+118AC">>>>,
     <<"U+118CD", <<"U+118AD">>>>, <<"U+118CE", <<"U+118AE">>>>,
     <<"U+118CF", <<"U+118AF">>>>, <<"U+118D0", <<"U+118B0">>>>,
     <<"U+118D1", <<"U+118B1">>>>, <<"U+118D2", <<"U+118B2">>>>,
     <<"U+118D3", <<"U+118B3">>>>, <<"U+118D4", <<"U+118B4">>>>,
     <<"U+118D5", <<"U+118B5">>>>, <<"U+118D6", <<"U+118B6">>>>,
     <<"U+118D7", <<"U+118B7">>>>, <<"U+118D8", <<"U+118B8">>>>,
     <<"U+118D9", <<"U+118B9">>>>, <<"U+118DA", <<"U+118BA">>>>,
     <<"U+118DB", <<"U+118BB">>>>, <<"U+118DC", <<"U+118BC">>>>,
     <<"U+118DD", <<"U+118BD">>>>, <<"U+118DE", <<"U+118BE">>>>,
     <<"U+118DF", <<"U+118BF">>>>, <<"U+16E60", <<"U+16E40">>>>,
     <<"U+16E61", <<"U+16E41">>>>, <<"U+16E62", <<"U+16E42">>>>,
     <<"U+16E63", <<"U+16E43">>>>, <<"U+16E64", <<"U+16E44">>>>,
     <<"U+16E65", <<"U+16E45">>>>, <<"U+16E66", <<"U+16E46">>>>,
     <<"U+16E67", <<"U+16E47">>>>, <<"U+16E68", <<"U+16E48">>>>,
     <<"U+16E69", <<"U+16E49">>>>, <<"U+16E6A", <<"U+16E4A">>>>,
     <<"U+16E6B", <<"U+16E4B">>>>, <<"U+16E6C", <<"U+16E4C">>>>,
     <<"U+16E6D", <<"U+16E4D">>>>, <<"U+16E6E", <<"U+16E4E">>>>,
     <<"U+16E6F", <<"U+16E4F">>>>, <<"U+16E70", <<"U+16E50">>>>,
     <<"U+16E71", <<"U+16E51">>>>, <<"U+16E72", <<"U+16E52">>>>,
     <<"U+16E73", <<"U+16E53">>>>, <<"U+16E74", <<"U+16E54">>>>,
     <<"U+16E75", <<"U+16E55">>>>, <<"U+16E76", <<"U+16E56">>>>,
     <<"U+16E77", <<"U+16E57">>>>, <<"U+16E78", <<"U+16E58">>>>,
     <<"U+16E79", <<"U+16E59">>>>, <<"U+16E7A", <<"U+16E5A">>>>,
     <<"U+16E7B", <<"U+16E5B">>>>, <<"U+16E7C", <<"U+16E5C">>>>,
     <<"U+16E7D", <<"U+16E5D">>>>, <<"U+16E7E", <<"U+16E5E">>>>,
     <<"U+16E7F", <<"U+16E5F">>>>, <<"U+1E922", <<"U+1E900">>>>,
     <<"U+1E923", <<"U+1E901">>>>, <<"U+1E924", <<"U+1E902">>>>,
     <<"U+1E925", <<"U+1E903">>>>, <<"U+1E926", <<"U+1E904">>>>,
     <<"U+1E927", <<"U+1E905">>>>, <<"U+1E928", <<"U+1E906">>>>,
     <<"U+1E929", <<"U+1E907">>>>, <<"U+1E92A", <<"U+1E908">>>>,
     <<"U+1E92B", <<"U+1E909">>>>, <<"U+1E92C", <<"U+1E90A">>>>,
     <<"U+1E92D", <<"U+1E90B">>>>, <<"U+1E92E", <<"U+1E90C">>>>,
     <<"U+1E92F", <<"U+1E90D">>>>, <<"U+1E930", <<"U+1E90E">>>>,
     <<"U+1E931", <<"U+1E90F">>>>, <<"U+1E932", <<"U+1E910">>>>,
     <<"U+1E933", <<"U+1E911">>>>, <<"U+1E934", <<"U+1E912">>>>,
     <<"U+1E935", <<"U+1E913">>>>, <<"U+1E936", <<"U+1E914">>>>,
     <<"U+1E937", <<"U+1E915">>>>, <<"U+1E938", <<"U+1E916">>>>,
     <<"U+1E939", <<"U+1E917">>>>, <<"U+1E93A", <<"U+1E918">>>>,
     <<"U+1E93B", <<"U+1E919">>>>, <<"U+1E93C", <<"U+1E91A">>>>,
     <<"U+1E93D", <<"U+1E91B">>>>, <<"U+1E93E", <<"U+1E91C">>>>,
     <<"U+1E93F", <<"U+1E91D">>>>, <<"U+1E940", <<"U+1E91E">>>>,
     <<"U+1E941", <<"U+1E91F">>>>, <<"U+1E942", <<"U+1E920">>>>,
     <<"U+1E943", <<"U+1E921">>>>}
UpperMap ==
    [c \in {p[1] : p \in UpperPairs} |-> (CHOOSE p \in UpperPairs : p[1] = c)[2]]

\* str.upper, one character: the result is a string
UpperChar(c) == IF c \in DOMAIN UpperMap THEN UpperMap[c] ELSE <<c>>
\* str.upper
RECURSIVE Upper(_)
Upper(s) == IF s = <<>> THEN <<>> ELSE UpperChar(s[1]) \o Upper(Tail(s))

\* s[i:] with a 1-based i
From(s, i) == SubSeq(s, i, Len(s))

\* s.startswith(pre)
StartsWith(s, pre) == Len(pre) <= Len(s) /\ SubSeq(s, 1, Len(pre)) = pre

\* `sub in s`
Contains(s, sub) == \E i \in 1..(Len(s) + 1) : StartsWith(From(s, i), sub)

\* s.replace(old, new): leftmost, non-overlapping occurrences (old non-empty)
RECURSIVE Replace(_, _, _)
Replace(s, old, new) ==
    IF s = <<>> THEN <<>>
    ELSE IF StartsWith(s, old) THEN new \o Replace(From(s, Len(old) + 1), old, new)
    ELSE <<s[1]>> \o Replace(Tail(s), old, new)

\* "".join(c for c in s if keep(c)), for keep = membership in a set
RECURSIVE Keep(_, _)
Keep(s, set) ==
    IF s = <<>> THEN <<>>
    ELSE (IF s[1] \in set THEN <<s[1]>> ELSE <<>>) \o Keep(Tail(s), set)

\* re.sub(r'[...]', '', s) for a character class given as a set
RECURSIVE Drop(_, _)
Drop(s, set) ==
    IF s = <<>> THEN <<>>
    ELSE (IF s[1] \in set THEN <<>> ELSE <<s[1]>>) \o Drop(Tail(s), set)

\* "0" * n
RECURSIVE Zeros(_)
Zeros(n) == IF n <= 0 THEN <<>> ELSE <<"0">> \o Zeros(n - 1)

\* str.zfill(width): zeros go after a leading sign
Zfill(s, width) ==
    IF Len(s) >= width THEN s
    ELSE IF s # <<>> /\ s[1] \in {"+", "-"} THEN <<s[1]>> \o Zeros(width - Len(s)) \o Tail(s)
    ELSE Zeros(width - Len(s)) \o s

\* str(n) for an int n >= 0
RECURSIVE IntToStr(_)
IntToStr(n) == IF n < 10 THEN <<DigitChars[n + 1]>> ELSE IntToStr(n \div 10) \o <<DigitChars[(n % 10) + 1]>>

\* int() skipping the whitespace before and after the number: the string
\* from its first, and up to its last, character that is not whitespace.
LStrip(s) ==
    IF \A i \in DOMAIN s : IsSpace(s[i]) THEN <<>>
    ELSE From(s, CHOOSE i \in DOMAIN s :
                    ~IsSpace(s[i]) /\ \A j \in 1..(i - 1) : IsSpace(s[j]))
RStrip(s) ==
    IF \A i \in DOMAIN s : IsSpace(s[i]) THEN <<>>
    ELSE SubSeq(s, 1, CHOOSE i \in DOMAIN s :
                         ~IsSpace(s[i]) /\ \A j \in (i + 1)..Len(s) : IsSpace(s[j]))
Strip(s) == RStrip(LStrip(s))

\* The value of a string of decimal digits and single underscores between them.
RECURSIVE DigitsValue(_, _)
DigitsValue(s, acc) ==
    IF s = <<>> THEN acc
    ELSE IF s[1] = "_" THEN DigitsValue(Tail(s), acc)
    ELSE DigitsValue(Tail(s), 10 * acc + DigitVal(s[1]))

\* sys.int_max_str_digits as CPython 3.11 starts with it: int() raises
\* ValueError on a string of more decimal digits.
IntMaxStrDigits == 4300

\* The number of decimal digits of a string (leading zeros count, underscores,
\* sign and whitespace do not).
DigitCount(s) == Cardinality({i \in DOMAIN s : IsDigit(s[i])})

\* Whether a character is a decimal digit other than zero.
IsNonZeroDigit(c) == IsDigit(c) /\ DigitVal(c) # 0

\* An unsigned body from its first digit that is not zero: leading zeros and
\* the underscores between them add nothing to the value.
Significant(s) ==
    IF \A i \in DOMAIN s : ~IsNonZeroDigit(s[i]) THEN <<>>
    ELSE From(s, CHOOSE i \in DOMAIN s :
                    IsNonZeroDigit(s[i]) /\ \A j \in 1..(i - 1) : ~IsNonZeroDigit(s[j]))

\* Whether int() accepts the unsigned body: digits, single underscores only
\* between two digits, at most IntMaxStrDigits digits.
IsIntBody(s) ==
    /\ s # <<>>
    /\ \A i \in DOMAIN s : IsDigit(s[i]) \/ s[i] = "_"
    /\ IsDigit(s[1]) /\ IsDigit(s[Len(s)])
    /\ \A i \in 1..(Len(s) - 1) : ~(s[i] = "_" /\ s[i + 1] = "_")
    /\ DigitCount(s) <= IntMaxStrDigits

\* int(s): [ok |-> FALSE] stands for ValueError (a string that is not a
\* number, or one of more than IntMaxStrDigits digits).
ParseInt(s) ==
    LET t == Strip(s)
        signed == t # <<>> /\ t[1] \in {"+", "-"}
        body == IF signed THEN Tail(t) ELSE t
        value == DigitsValue(Significant(body), 0)
    IN  IF IsIntBody(body)
        THEN [ok |-> TRUE, val |-> IF signed /\ t[1] = "-" THEN 0 - value ELSE value]
        ELSE [ok |-> FALSE, val |-> 0]

\* datetime.MINYEAR, datetime.MAXYEAR
MINYEAR == 1
MAXYEAR == 9999

IsLeap(y) == y % 4 = 0 /\ (y % 100 # 0 \/ y % 400 = 0)
DaysInMonth(y, m) ==
    IF m = 2 THEN (IF IsLeap(y) THEN 29 ELSE 28)
    ELSE IF m \in {4, 6, 9, 11} THEN 30 ELSE 31

\* datetime(int(y), int(m), int(d)) inside try/except: [ok |-> FALSE] is the
\* except branch (a ValueError of int() or of datetime()).
ParseDate(ys, ms, ds) ==
    LET y == ParseInt(ys)
        m == ParseInt(ms)
        d == ParseInt(ds)
    IN  IF /\ y.ok /\ m.ok /\ d.ok
           /\ MINYEAR <= y.val /\ y.val <= MAXYEAR
           /\ 1 <= m.val /\ m.val <= 12
           /\ 1 <= d.val /\ d.val <= DaysInMonth(y.val, m.val)
        THEN [ok |-> TRUE, y |-> y.val, m |-> m.val, d |-> d.val]
        ELSE [ok |-> FALSE, y |-> 0, m |-> 0, d |-> 0]

\* date.strftime('%Y-%m-%d'): %m and %d are two digits; %Y is the year's
\* decimal digits, which glibc does not pad below the year 1000.
Strftime(dt) ==
    IntToStr(dt.y) \o <<"-">> \o Zfill(IntToStr(dt.m), 2) \o <<"-">> \o Zfill(IntToStr(dt.d), 2)

(***************************************************************************)
(* rdflib terms and the graph                                              *)
(*                                                                         *)
(* A term is a record [kind, q, v]: for a URIRef minted from a namespace v *)
(* is the whole IRI and q is empty; for a vocabulary term q is its         *)
(* prefixed name; for a BNode v is its identifier; for a Literal v is the  *)
(* lexical form and q the language tag or datatype.  A graph is a set of   *)
(* triples <<s, p, o>>.                                                    *)
(***************************************************************************)

\* The namespaces saaPerson, saaInventory and saaItem.
NamespaceOf ==
    [saaPerson |->
        <<"h", "t", "t", "p", ":", "/", "/", "g", "o", "l", "d", "e", "n",
          "a", "g", "e", "n", "t", "s", ".", "o", "r", "g", "/", "u", "v",
          "a", "/", "S", "A", "A", "/", "P", "e", "r", "s", "o", "n", "/">>,
     saaInventory |->
        <<"h", "t", "t", "p", ":", "/", "/", "g", "o", "l", "d", "e", "n",
          "a", "g", "e", "n", "t", "s", ".", "o", "r", "g", "/", "u", "v",
          "a", "/", "S", "A", "A", "/", "I", "n", "v", "e", "n", "t", "o",
          "r", "y", "/">>,
     saaItem |->
        <<"h", "t", "t", "p", ":", "/", "/", "g", "o", "l", "d", "e", "n",
          "a", "g", "e", "n", "t", "s", ".", "o", "r", "g", "/", "u", "v",
          "a", "/", "S", "A", "A", "/", "I", "n", "v", "e", "n", "t", "o",
          "r", "y", "/", "I", "t", "e", "m", "/">>]

\* Namespace.term(local): the IRI is the namespace followed by the local name,
\* so that two namespaces one of which begins with the other can name the
\* same resource.
URIRef(ns, local) == [kind |-> "uri", q |-> "", v |-> NamespaceOf[ns] \o local]
Vocab(name) == [kind |-> "uri", q |-> name, v |-> <<>>]
BNode(id) == [kind |-> "bnode", q |-> "", v |-> id]
Literal(lex) == [kind |-> "lit", q |-> "", v |-> lex]
LangLiteral(lex, lang) == [kind |-> "lit", q |-> lang, v |-> lex]
\* Literal(lex, datatype=XSD.date) with the lexical form as the handler
\* passes it.  rdflib may rewrite a lexical form it can read as a date into
\* the canonical one; the properties below ask only whether the statement is
\* present.
DateLiteral(lex) == [kind |-> "lit", q |-> "xsd:date", v |-> lex]

\* COUNTRIES and CITIES: label -> TGN term
COUNTRIES ==
    {<<<<"N", "e", "t", "h", "e", "r", "l", "a", "n", "d", "s">>, "tgn:7016845">>,
     <<<<"B", "e", "l", "g", "i", "u", "m">>, "tgn:1000063">>,
     <<<<"G", "e", "r", "m", "a", "n", "y">>, "tgn:7000084">>}
CITIES ==
    {<<<<"A", "l", "k", "m", "a", "a", "r">>, "tgn:7007057">>,
     <<<<"A", "m", "s", "t", "e", "r", "d", "a", "m">>, "tgn:7006952">>,
     <<<<"A", "n", "t", "w", "e", "r", "p">>, "tgn:7007856">>,
     <<<<"D", "o", "r", "d", "r", "e", "c", "h", "t">>, "tgn:7006798">>,
     <<<<"H", "a", "a", "r", "l", "e", "m">>, "tgn:7007048">>,
     <<<<"H", "a", "m", "b", "u", "r", "g">>, "tgn:7005289">>,
     <<<<"H", "o", "o", "r", "n">>, "tgn:7007056">>,
     <<<<"L", "e", "i", "d", "e", "n">>, "tgn:7006809">>,
     <<<<"H", "a", "g", "u", "e", ",", " ", "T", "h", "e">>, "tgn:7006810">>,
     <<<<"U", "t", "r", "e", "c", "h", "t">>, "tgn:7006926">>,
     <<<<"W", "i", "j", "k", " ", "b", "i", "j", " ", "D", "u", "u", "r", "s", "t", "e", "d", "e">>, "tgn:7017400">>}

\* TABLE.get(label, None): the set holding the term, empty for None
Get(table, label) == {Vocab(e[2]) : e \in {x \in table : x[1] = label}}

\* main: the labels of the countries and cities, added before any row
GazetteerLabels ==
    {<<Vocab(e[2]), "rdfs:label", LangLiteral(e[1], "en-US")>> : e \in COUNTRIES \cup CITIES}

(***************************************************************************)
(* Canonical identifiers                                                   *)
(***************************************************************************)

\* The role names in the person identifiers
RoleOwner == <<"o", "w", "n", "e", "r">>
RoleBeneficiary == <<"b", "e", "n", "e", "f", "i", "c", "i", "a", "r", "y">>
RoleAppraiser == <<"a", "p", "p", "r", "a", "i", "s", "e", "r">>

\* range(1, 6), range(1, 13), range(1, 15)
OwnerPositions == 1..5
BeneficiaryPositions == 1..12
AppraiserPositions == 1..14

\* f"{record['pi_record_no']}{role}{str(n).zfill(2)}"
MintPersonNoRole(recordNo, role, n) == recordNo \o Zfill(IntToStr(n), 2)
MintPerson(recordNo, role, n) == recordNo \o role \o Zfill(IntToStr(n), 2)

\* f"{record['pi_inventory_no']}_{record['assigned_item_no'].zfill(4)}"
MintItem(inventoryNo, itemNo) == inventoryNo \o <<"_">> \o Zfill(itemNo, 4)

\* The backtick character, which a TLA+ string cannot hold.
Backtick == "BACKTICK"

\* re.sub of the class of "[", "]" and the backtick, in record['inventory_lot']
MintItemFrick(inventoryLot) == Drop(inventoryLot, {"[", "]", Backtick})

\* "".join(i for i in name + loc if i in string.ascii_letters)
MintArchiveUnfiltered(name, loc) == name \o loc
MintArchive(name, loc) == Keep(name \o loc, AsciiLetters)

\* f"saaInventory{inventoryNumber}"
MintBook(inventoryNumber) == <<"s", "a", "a", "I", "n", "v", "e", "n", "t", "o", "r", "y">> \o inventoryNumber

(***************************************************************************)
(* Dialect A (convert.py, convertGPI.py): persons                          *)
(***************************************************************************)

\* The triples one person contributes: type, label and back reference.
PersonTriples(person, name, inventory) ==
    {<<person, "rdf:type", Vocab("saa:Person")>>,
     <<person, "rdfs:label", Literal(name)>>,
     <<person, "saa:isInRecord", inventory>>}

\* getOwners: record.owner_name[n] is the column owner_name_n.
OwnersOf(record) ==
    {[n |-> n, name |-> record.owner_name[n],
      node |-> URIRef("saaPerson", MintPerson(record.pi_record_no, RoleOwner, n))] :
        n \in {k \in OwnerPositions : record.owner_name[k] # <<>>}}

\* getBeneficiaries: record.benef_name[n] is the column benef_name_n.
BeneficiariesOf(record) ==
    {[n |-> n, name |-> record.benef_name[n],
      node |-> URIRef("saaPerson", MintPerson(record.pi_record_no, RoleBeneficiary, n))] :
        n \in {k \in BeneficiaryPositions : record.benef_name[k] # <<>>}}

\* getAppraisers: record.appraiser[n] is the column appraiser_n.
AppraisersOf(record) ==
    {[n |-> n, name |-> record.appraiser[n],
      node |-> URIRef("saaPerson", MintPerson(record.pi_record_no, RoleAppraiser, n))] :
        n \in {k \in AppraiserPositions : record.appraiser[k] # <<>>}}

\* The triples the three getters add, and the relations description2rdf adds
\* for the persons they return.
PersonsTriplesA(record, inventory) ==
    UNION {PersonTriples(x.node, x.name, inventory) :
              x \in OwnersOf(record) \cup BeneficiariesOf(record) \cup AppraisersOf(record)}
    \cup {<<inventory, "saa:owners", x.node>> : x \in OwnersOf(record)}
    \cup {<<inventory, "saa:beneficiaries", x.node>> : x \in BeneficiariesOf(record)}
    \cup {<<inventory, "saa:appraisers", x.node>> : x \in AppraisersOf(record)}

(***************************************************************************)
(* Dialect A: dates                                                        *)
(***************************************************************************)

NoDate == [ok |-> FALSE, y |-> 0, m |-> 0, d |-> 0]

\* "Pick one date as registrationDate": all([beginDate, endDate]) holds when
\* neither is None (a datetime is always truthy).
PickDateEndFirst(beginDate, endDate) ==
    IF endDate.ok THEN endDate ELSE beginDate
PickDate(beginDate, endDate) ==
    IF beginDate.ok /\ endDate.ok THEN beginDate
    ELSE IF ~beginDate.ok THEN endDate
    ELSE IF ~endDate.ok THEN beginDate
    ELSE NoDate

BeginDateA(record) ==
    ParseDate(record.begin_date_year, record.begin_date_month, record.begin_date_day)
EndDateA(record) ==
    ParseDate(record.end_date_year, record.end_date_month, record.end_date_day)

\* The two try blocks and the registration date of description2rdf.
DateTriplesA(record, inventory) ==
    LET beginDate == BeginDateA(record)
        endDate == EndDateA(record)
        date == PickDate(beginDate, endDate)
    IN  (IF beginDate.ok
         THEN {<<inventory, "saa:beginDate", DateLiteral(Strftime(beginDate))>>} ELSE {})
        \cup
        (IF endDate.ok
         THEN {<<inventory, "saa:endDate", DateLiteral(Strftime(endDate))>>} ELSE {})
        \cup
        (IF date.ok
         THEN {<<inventory, "saa:registrationDate", DateLiteral(Strftime(date))>>} ELSE {})

(***************************************************************************)
(* Dialect A: archive and reference parsing                                *)
(***************************************************************************)

\* getArchive of convert.py and convertGPI.py: the set holding the archive
\* node (empty for None), and the triples added.
ArchiveOfA(record) ==
    IF record.archive_name # <<>>
    THEN {BNode(MintArchive(record.archive_name, record.archive_loc))}
    ELSE {}
ArchiveTriplesA(record) ==
    UNION {{<<a, "rdf:type", Vocab("saa:Archive")>>,
            <<a, "rdfs:label", Literal(record.archive_name)>>}
           \cup (IF record.archive_loc # <<>>
                 THEN {<<a, "saa:location", Literal(record.archive_loc)>>} ELSE {}) :
           a \in ArchiveOfA(record)}

\* The group ([^ \,)]*): the longest prefix without space, comma or ")".
RECURSIVE TokenAToSpace(_)
TokenAToSpace(s) ==
    IF s = <<>> \/ s[1] = " " THEN <<>>
    ELSE <<s[1]>> \o TokenAToSpace(Tail(s))
RECURSIVE TokenA(_)
TokenA(s) ==
    IF s = <<>> \/ s[1] \in {" ", ",", ")"} THEN <<>>
    ELSE <<s[1]>> \o TokenA(Tail(s))

PrefixNAA == <<"N", "A", "A", " ">>
PrefixGAANA == <<"G", "A", "A", " ", "N", "A", " ">>

\* re.findall(r'(?:(?:NAA)|(?:GAA NA)) ([^ \,)]*)', s): the sequence holding
\* the first match's group, empty when nothing matches.  The scan tries each
\* position from the left, "NAA " before "GAA NA ".
RECURSIVE FindBookA(_)
FindBookA(s) ==
    IF s = <<>> THEN <<>>
    ELSE IF StartsWith(s, PrefixNAA) THEN <<TokenA(From(s, Len(PrefixNAA) + 1))>>
    ELSE IF StartsWith(s, PrefixGAANA) THEN <<TokenA(From(s, Len(PrefixGAANA) + 1))>>
    ELSE FindBookA(Tail(s))

\* `'Amsterdam' in record['archive_loc']`
InAmsterdam(loc) == Contains(loc, <<"A", "m", "s", "t", "e", "r", "d", "a", "m">>)

\* The inventory numbers of the books description2rdf makes for the record
\* (lines 157-166 of convert.py): empty or one uppercased token.
BookNumbersA(record) ==
    IF record.archive_doc_no # <<>> /\ InAmsterdam(record.archive_loc)
    THEN {Upper(t) : t \in Range(FindBookA(record.archive_doc_no))}
    ELSE {}

\* Lines 157-173 of convert.py.
ReferenceTriplesA(record, inventory) ==
    (IF record.archive_doc_no # <<>>
     THEN {<<inventory, "saa:archiveDocumentReference", Literal(record.archive_doc_no)>>}
     ELSE {})
    \cup
    UNION {{<<BNode(MintBook(num)), "saa:inventoryNumber", Literal(num)>>,
            <<inventory, "saa:documentedIn", BNode(MintBook(num))>>}
           \cup {<<BNode(MintBook(num)), "saa:heldBy", a>> : a \in ArchiveOfA(record)} :
           num \in BookNumbersA(record)}

(***************************************************************************)
(* Dialect A: description2rdf                                              *)
(***************************************************************************)

\* Every triple description2rdf of convert.py / convertGPI.py passes to g.add
\* for one row of the descriptions file.
DescriptionTriplesA(record) ==
    LET inventory == URIRef("saaInventory", record.pi_record_no)
    IN  {<<inventory, "rdf:type", Vocab("saa:Inventory")>>,
         <<inventory, "saa:identifier", Literal(record.pi_record_no)>>,
         <<inventory, "saa:documentType", LangLiteral(record.document_type, "en-US")>>}
        \cup (IF record.introduction # <<>>
              THEN {<<inventory, "rdfs:comment", LangLiteral(record.introduction, "nl")>>}
              ELSE {})
        \cup {<<inventory, "saa:country", c>> : c \in Get(COUNTRIES, record.country_auth)}
        \cup {<<inventory, "saa:city", c>> : c \in Get(CITIES, record.city_auth)}
        \cup PersonsTriplesA(record, inventory)
        \cup DateTriplesA(record, inventory)
        \cup ArchiveTriplesA(record)
        \cup {<<inventory, "saa:archive", a>> : a \in ArchiveOfA(record)}
        \cup ReferenceTriplesA(record, inventory)

(***************************************************************************)
(* Dialect B (convertFrick.py): description2rdf                            *)
(***************************************************************************)

\* date.replace('/', '-').replace('c. ', '')
FrickDate(date) == Replace(Replace(date, <<"/">>, <<"-">>), <<"c", ".", " ">>, <<>>)

\* getArchive of convertFrick.py
ArchiveOfB(record) ==
    IF record.archive # <<>> THEN {BNode(MintArchive(record.archive, <<>>))} ELSE {}
ArchiveTriplesB(record) ==
    UNION {{<<a, "rdf:type", Vocab("saa:Archive")>>,
            <<a, "rdfs:label", Literal(record.archive)>>} : a \in ArchiveOfB(record)}

\* The longest prefix of decimal digits, at most n of them.
RECURSIVE DigitRun(_, _)
DigitRun(s, n) ==
    IF n = 0 \/ s = <<>> \/ ~IsDigit(s[1]) THEN <<>>
    ELSE <<s[1]>> \o DigitRun(Tail(s), n - 1)

\* The group (\d{2,5}[ ]?[A-B]?) matched at the head of s, which starts with
\* two digits: every quantifier is greedy and nothing after it can fail.
GroupBDigitsOnly(s) == DigitRun(s, 5)
GroupB(s) ==
    LET digits == DigitRun(s, 5)
        r1 == From(s, Len(digits) + 1)
        space == IF r1 # <<>> /\ r1[1] = " " THEN <<" ">> ELSE <<>>
        r2 == From(r1, Len(space) + 1)
        suffix == IF r2 # <<>> /\ r2[1] \in {"A", "B"} THEN <<r2[1]>> ELSE <<>>
    IN  digits \o space \o suffix

\* re.findall(r"(?:NA)?[ ]?(\d{2,5}[ ]?[A-B]?)", s): the sequence holding the
\* first match's group, empty when nothing matches.  The prefix is optional,
\* so the first match's group starts at the first two adjacent digits.
RECURSIVE FindBookB(_)
FindBookB(s) ==
    IF Len(s) < 2 THEN <<>>
    ELSE IF IsDigit(s[1]) /\ IsDigit(s[2]) THEN <<GroupB(s)>>
    ELSE FindBookB(Tail(s))

\* Lines 160-171 of convertFrick.py.
BookNumbersB(record) ==
    LET archiveReference == record.call_number
    IN  IF archiveReference = <<>> THEN {}
        ELSE IF Contains(archiveReference, <<"W", "K">>) THEN {}
        ELSE IF Contains(archiveReference, <<"D", "B", "K">>) THEN {}
        ELSE IF Contains(archiveReference, <<"b", "o", "e", "d", "e", "l">>) THEN {}
        ELSE {Replace(Upper(t), <<" ">>, <<>>) : t \in Range(FindBookB(archiveReference))}

\* Lines 153-179 of convertFrick.py.
ReferenceTriplesB(record, inventory) ==
    (IF record.call_number # <<>>
     THEN {<<inventory, "saa:archiveDocumentReference", Literal(record.call_number)>>}
     ELSE {})
    \cup
    UNION {{<<BNode(MintBook(num)), "saa:inventoryNumber", Literal(num)>>,
            <<BNode(MintBook(num)), "rdf:type", Vocab("saa:InventoryBook")>>,
            <<inventory, "saa:documentedIn", BNode(MintBook(num))>>}
           \cup {<<BNode(MintBook(num)), "saa:heldBy", a>> : a \in ArchiveOfB(record)} :
           num \in BookNumbersB(record)}

\* Every triple description2rdf of convertFrick.py passes to g.add for one
\* row of the descriptions file.
DescriptionTriplesB(record) ==
    LET inventory == URIRef("saaInventory", record.inventory_number)
        owner == URIRef("saaPerson", record.inventory_number \o RoleOwner \o <<"0", "1">>)
    IN  {<<inventory, "rdf:type", Vocab("saa:Inventory")>>,
         <<inventory, "saa:identifier", Literal(record.inventory_number)>>,
         <<inventory, "saa:montiasId", Literal(record.montias_id)>>,
         <<inventory, "saa:documentType", LangLiteral(record.type, "en-US")>>,
         <<inventory, "saa:registrationDate", DateLiteral(FrickDate(record.date))>>}
        \cup (IF record.introduction # <<>>
              THEN {<<inventory, "rdfs:comment", LangLiteral(record.introduction, "nl")>>}
              ELSE {})
        \cup (IF record.commentary # <<>>
              THEN {<<inventory, "rdfs:comment", LangLiteral(record.commentary, "en")>>}
              ELSE {})
        \cup {<<inventory, "saa:country", c>> : c \in Get(COUNTRIES, record.country)}
        \cup {<<inventory, "saa:city", c>> : c \in Get(CITIES, record.city)}
        \cup (IF record.owner_name # <<>>
              THEN PersonTriples(owner, record.owner_name, inventory)
                   \cup {<<inventory, "saa:owners", owner>>}
              ELSE {})
        \cup (IF record.appraiser # <<>>
              THEN {<<inventory, "saa:appraisers", Literal(record.appraiser)>>}
              ELSE {})
        \cup ArchiveTriplesB(record)
        \cup {<<inventory, "saa:archive", a>> : a \in ArchiveOfB(record)}
        \cup ReferenceTriplesB(record, inventory)

(***************************************************************************)
(* items2rdf, the three variants                                           *)
(***************************************************************************)

\* items2rdf of convert.py
ItemTriplesConvert(record) ==
    LET inventory == URIRef("saaInventory", record.pi_inventory_no)
        item == URIRef("saaItem", MintItem(record.pi_inventory_no, record.assigned_item_no))
    IN  {<<inventory, "saa:content", item>>,
         <<item, "saa:isInRecord", inventory>>,
         <<item, "rdf:type", Vocab("saa:Item")>>,
         <<item, "saa:index", Literal(record.assigned_item_no)>>,
         <<item, "rdfs:label", LangLiteral(record.title, "nl")>>,
         <<item, "saa:transcription", LangLiteral(record.entry, "nl")>>}
        \cup (IF record.persistent_uid # <<>>
              THEN {<<item, "saa:identifier", Literal(record.persistent_uid)>>} ELSE {})
        \cup (IF record.room # <<>>
              THEN {<<item, "saa:room", LangLiteral(record.room, "nl")>>} ELSE {})
        \cup (IF record.valuation_amount # <<>>
              THEN {<<item, "saa:valuation", Literal(record.valuation_amount)>>} ELSE {})

\* items2rdf of convertGPI.py: as convert.py, plus the artist and work type
ItemTriplesGPI(record) ==
    LET item == URIRef("saaItem", MintItem(record.pi_inventory_no, record.assigned_item_no))
    IN  ItemTriplesConvert(record)
        \cup {<<item, "saa:artist", Literal(record.artist_name_1)>>,
              <<item, "saa:workType", LangLiteral(record.object_type_1, "nl")>>}

\* items2rdf of convertFrick.py
ItemTriplesFrick(record) ==
    LET inventory == URIRef("saaInventory", record.inventory_number)
        item == URIRef("saaItem", MintItemFrick(record.inventory_lot))
    IN  {<<inventory, "saa:content", item>>,
         <<item, "saa:isInRecord", inventory>>,
         <<item, "rdf:type", Vocab("saa:Item")>>,
         <<item, "saa:index", Literal(record.assigned_item_no)>>,
         <<item, "saa:workType", LangLiteral(record.type, "en")>>,
         <<item, "rdfs:label", LangLiteral(record.title, "nl")>>,
         <<item, "saa:artist", Literal(record.artist_name)>>,
         <<item, "saa:transcription", LangLiteral(record.entry, "nl")>>}
        \cup (IF record.room # <<>>
              THEN {<<item, "saa:room", LangLiteral(record.room, "nl")>>} ELSE {})
        \cup (IF record.value # <<>>
              THEN {<<item, "saa:valuation", Literal(record.value)>>} ELSE {})

(***************************************************************************)
(* main of the three converters                                            *)
(***************************************************************************)

\* g.add(triple) for each of the triples: an rdflib graph is a set of triples.
GraphAdd(graph, triples) == graph \cup triples

\* The triples the handler of program p passes to g.add for a row r of the
\* descriptions file (kind "description") or the items file (kind "item").
\* No handler reads the graph or keeps anything between two calls.
HandlerTriples(p, kind, r) ==
    IF kind = "description"
    THEN (IF p = "Frick" THEN DescriptionTriplesB(r) ELSE DescriptionTriplesA(r))
    ELSE (IF p = "Frick" THEN ItemTriplesFrick(r)
          ELSE IF p = "GPI" THEN ItemTriplesGPI(r) ELSE ItemTriplesConvert(r))

\* One call g = handler(r, g=g) of main's loops: the triples go into g.
Handle(kind, record, triples) ==
    /\ g' = GraphAdd(g, triples)
    /\ last' = kind
    /\ row' = record
    /\ added' = triples
    /\ nrows' = nrows + 1
    /\ UNCHANGED <<prog, phase, pc, done, linkset, keys, printed, outfile>>

\* convert.py, main: lines 61-64 and 67-70
Convert_description2rdf(r) ==
    prog = "convert" /\ phase = "descriptions" /\ Handle("description", r, DescriptionTriplesA(r))
Convert_items2rdf(r) ==
    prog = "convert" /\ phase = "items" /\ Handle("item", r, ItemTriplesConvert(r))

\* convertGPI.py, main: lines 114-117 and 120-123
GPI_description2rdf(r) ==
    prog = "GPI" /\ phase = "descriptions" /\ Handle("description", r, DescriptionTriplesA(r))
GPI_items2rdf(r) ==
    prog = "GPI" /\ phase = "items" /\ Handle("item", r, ItemTriplesGPI(r))

\* convertFrick.py, main: lines 73-76 and 79-82
Frick_description2rdf(r) ==
    prog = "Frick" /\ phase = "descriptions" /\ Handle("description", r, DescriptionTriplesB(r))
Frick_items2rdf(r) ==
    prog = "Frick" /\ phase = "items" /\ Handle("item", r, ItemTriplesFrick(r))

\* The descriptions file is exhausted: main goes on to the items file.
EndDescriptions ==
    /\ phase = "descriptions"
    /\ phase' = "items"
    /\ nrows' = 0
    /\ UNCHANGED <<prog, g, last, row, added, pc, done, linkset, keys, printed, outfile>>

\* The items file is exhausted: main returns the dataset.
EndItems ==
    /\ phase = "items"
    /\ phase' = "returned"
    /\ nrows' = nrows
    /\ UNCHANGED <<prog, g, last, row, added, pc, done, linkset, keys, printed, outfile>>

(***************************************************************************)
(* Input rows of the converters                                            *)
(***************************************************************************)

\* The most non-empty name columns in a generated row of persons.
MaxNames == 2
\* The most chunks a generated document reference is made of.
MaxChunks == 3
\* The most rows read from one file in the runs over several rows.
MaxFileRows == 2

NoNames(positions) == [n \in positions |-> <<>>]

\* A row of the dialect A descriptions file with every optional column empty.
RowA0 ==
    [pi_record_no |-> <<"N", "-", "1">>, country_auth |-> <<"N", "e", "t", "h", "e", "r", "l", "a", "n", "d", "s">>, city_auth |-> <<"A", "m", "s", "t", "e", "r", "d", "a", "m">>,
     introduction |-> <<>>, document_type |-> <<"I", "n", "v", "e", "n", "t", "o", "r", "y">>,
     owner_name |-> NoNames(OwnerPositions),
     benef_name |-> NoNames(BeneficiaryPositions),
     appraiser |-> NoNames(AppraiserPositions),
     begin_date_year |-> <<>>, begin_date_month |-> <<>>, begin_date_day |-> <<>>,
     end_date_year |-> <<>>, end_date_month |-> <<>>, end_date_day |-> <<>>,
     archive_name |-> <<>>, archive_loc |-> <<>>, archive_doc_no |-> <<>>]

\* A row of the dialect B descriptions file with every optional column empty.
RowB0 ==
    [inventory_number |-> <<"1", "0", "0", "1">>, montias_id |-> <<"7">>, country |-> <<"N", "e", "t", "h", "e", "r", "l", "a", "n", "d", "s">>,
     city |-> <<"A", "m", "s", "t", "e", "r", "d", "a", "m">>, introduction |-> <<>>, commentary |-> <<>>,
     type |-> <<"I", "n", "v", "e", "n", "t", "o", "r", "y">>, owner_name |-> <<>>, appraiser |-> <<>>,
     date |-> <<"1", "6", "5", "0", "/", "0", "5", "/", "0", "3">>, archive |-> <<>>, call_number |-> <<>>]

\* Year, month and day columns: two valid dates, a leap day, empty columns, a
\* non-numeric year, month 13, 29 February of a common year, the year 0, a
\* date with a form feed before the year and a no-break space after the day,
\* a year after the separator U+001C, the year 1684 written with
\* IntMaxStrDigits digits and with one digit more.
LongYear(n) == [i \in 1..(n - 4) |-> "0"] \o <<"1", "6", "8", "4">>

DateInputs ==
    {<<LongYear(IntMaxStrDigits), <<"1", "0">>, <<"4">>>>,
     <<LongYear(IntMaxStrDigits + 1), <<"1", "0">>, <<"4">>>>,
     <<<<"1", "6", "8", "4">>, <<"1", "0">>, <<"4">>>>,
     <<<<"1", "6", "8", "5">>, <<"1">>, <<"1">>>>,
     <<<<"1", "6", "8", "4">>, <<"2">>, <<"2", "9">>>>,
     <<<<>>, <<>>, <<>>>>,
     <<<<"1", "6", "x", "4">>, <<"1", "0">>, <<"4">>>>,
     <<<<"1", "6", "8", "4">>, <<"1", "3">>, <<"4">>>>,
     <<<<"1", "6", "8", "5">>, <<"2">>, <<"2", "9">>>>,
     <<<<"0">>, <<"1">>, <<"1">>>>,
     <<<<"\f", "1", "6", "8", "6">>, <<"1", "0">>, <<"4", " ">>>>,
     <<<<"", "1", "6", "8", "4">>, <<"1", "0">>, <<"4">>>>}

DateRowsA ==
    {[RowA0 EXCEPT !.begin_date_year = b[1], !.begin_date_month = b[2], !.begin_date_day = b[3],
                   !.end_date_year = e[1], !.end_date_month = e[2], !.end_date_day = e[3]] :
        b \in DateInputs, e \in DateInputs}

\* The date column of dialect B: ISO with slashes, circa, empty, year only,
\* not a date.
DateRowsB ==
    {[RowB0 EXCEPT !.date = d] :
        d \in {<<"1", "6", "5", "0", "/", "0", "5", "/", "0", "3">>, <<"c", ".", " ", "1", "6", "5", "0", "/", "0", "5", "/", "0", "3">>, <<>>, <<"1", "6", "5", "0">>, <<"1", "6", "x", "x", "/", "1", "3", "/", "4", "5">>}}

\* The name columns: role and position.
NameSlots ==
    ({"owner"} \X OwnerPositions) \cup ({"beneficiary"} \X BeneficiaryPositions)
        \cup ({"appraiser"} \X AppraiserPositions)

\* The first, second and last column of each role.
EdgeSlots ==
    {s \in NameSlots :
        \/ s[2] \in {1, 2}
        \/ s \in {<<"owner", 5>>, <<"beneficiary", 12>>, <<"appraiser", 14>>}}

\* The sets of at most k of those name columns.
RECURSIVE SlotSets(_)
SlotSets(k) ==
    IF k = 0 THEN {{}}
    ELSE SlotSets(k - 1) \cup {P \cup {s} : P \in SlotSets(k - 1), s \in EdgeSlots}

NamesAt(role, positions, P) ==
    [n \in positions |-> IF <<role, n>> \in P THEN <<"T", "r", "i", "p">> ELSE <<>>]

\* Rows with at most MaxNames names in the edge columns, the rows with one
\* name in any column, and the row with all 31.
PersonRowsA ==
    {[RowA0 EXCEPT !.owner_name = NamesAt("owner", OwnerPositions, P),
                   !.benef_name = NamesAt("beneficiary", BeneficiaryPositions, P),
                   !.appraiser = NamesAt("appraiser", AppraiserPositions, P)] :
        P \in SlotSets(MaxNames) \cup {{s} : s \in NameSlots} \cup {NameSlots}}

PersonRowsB ==
    {[RowB0 EXCEPT !.owner_name = o, !.appraiser = a] :
        o \in {<<>>, <<"T", "r", "i", "p">>}, a \in {<<>>, <<"P", "e", "l", "s">>}}

\* Pieces of a document reference: the two prefixes, a token and the three
\* characters that end a token (the space closes each prefix).
DocChunks == {PrefixNAA, PrefixGAANA, <<"2", "a">>, <<",">>, <<")">>}

\* The concatenations of at most k chunks.
RECURSIVE Docs(_)
Docs(k) ==
    IF k = 0 THEN {<<>>}
    ELSE Docs(k - 1) \cup {d \o c : d \in Docs(k - 1), c \in DocChunks}

RefRowsA ==
    {[RowA0 EXCEPT !.archive_name = n, !.archive_loc = l, !.archive_doc_no = d] :
        n \in {<<>>, <<"G", "A">>},
        l \in {<<"A", "m", "s", "t", "e", "r", "d", "a", "m">>, <<"A", "n", "t", "w", "e", "r", "p">>, <<"G", "A", " ", "A", "m", "s", "t", "e", "r", "d", "a", "m", ",", " ", "N", "L">>},
        d \in Docs(MaxChunks) \cup
              {<<"N", "A", "A", " ", "2", "4", "1", "3", " ", "(", "f", "i", "l", "m", " ", "2", "5", "5", "2", ")">>,
               <<"N", "A", "A", " ", "7", "ß", "-", "é", ")">>}}

\* Pieces of a call number of dialect B.
CallChunks == {<<"N", "A", " ">>, <<" ">>, <<"1", "2">>, <<"3", "4", "5">>, <<"A">>, <<"W", "K">>}

\* The concatenations of at most k of those pieces.
RECURSIVE Calls(_)
Calls(k) ==
    IF k = 0 THEN {<<>>}
    ELSE Calls(k - 1) \cup {d \o c : d \in Calls(k - 1), c \in CallChunks}

\* Call numbers of dialect B.
RefRowsB ==
    {[RowB0 EXCEPT !.archive = n, !.call_number = c] :
        n \in {<<>>, <<"G", "A", "A">>},
        c \in Calls(MaxChunks) \cup
              {<<"N", "A", " ", "1", "2", "3", "4", " ", "A">>, <<"N", "A", " ", "5", "6", "7">>, <<"W", "K", " ", "5", "0", "7", "3", "/", "1", "2">>, <<"D", "B", "K", " ", "5">>, <<"b", "o", "e", "d", "e", "l", " ", "1", "2">>, <<"N", "A", " ", "1">>,
               <<"n", "a", " ", "9", "9", "b">>, <<"1", "2", "3", "4", " ", " ", "A">>, <<"N", "A", " ", "1", "2", "3", "4", "5", "6", " ", "B">>,
               <<"N", "A", " ", "U+0663", "U+0663", " ", "B">>}}

DescriptionRowsA == DateRowsA \cup PersonRowsA \cup RefRowsA
DescriptionRowsB == DateRowsB \cup PersonRowsB \cup RefRowsB

\* Rows of the items files.
ItemRowA0 ==
    [pi_inventory_no |-> <<"N", "-", "1">>, assigned_item_no |-> <<"1">>, persistent_uid |-> <<>>,
     title |-> <<"E", "e", "n", " ", "b", "o", "e", "r">>, entry |-> <<"e", "e", "n", " ", "s", "c", "h", "i", "l", "d", "e", "r", "i", "j">>, room |-> <<>>,
     valuation_amount |-> <<>>, artist_name_1 |-> <<>>, object_type_1 |-> <<>>]
ItemRowsA ==
    {[ItemRowA0 EXCEPT !.pi_inventory_no = i, !.assigned_item_no = n, !.title = t] :
        i \in {<<"N", "-", "1">>, <<"N", "-", "2">>},
        n \in {<<"1">>, <<"0", "1">>, <<"2">>, <<"1", "2", "3", "4", "5">>},
        t \in {<<"E", "e", "n", " ", "b", "o", "e", "r">>, <<>>}}

ItemRowB0 ==
    [inventory_number |-> <<"1", "0", "0", "1">>, inventory_lot |-> <<"1", "0", "0", "1", ".", "0", "0", "0", "1">>, assigned_item_no |-> <<"1">>,
     type |-> <<"p", "a", "i", "n", "t", "i", "n", "g">>, title |-> <<"E", "e", "n", " ", "b", "o", "e", "r">>, artist_name |-> <<>>,
     entry |-> <<"e", "e", "n", " ", "s", "c", "h", "i", "l", "d", "e", "r", "i", "j">>, room |-> <<>>, value |-> <<>>]
ItemRowsB ==
    {[ItemRowB0 EXCEPT !.inventory_lot = l, !.assigned_item_no = n, !.title = t] :
        l \in {<<"1", "0", "0", "1", ".", "0", "0", "0", "1">>, <<"[", "1", "0", "0", "1", ".", "0", "0", "0", "1", "]">>, <<"1", "0", "0", "1", ".", "0", "0", "0", "2">>},
        n \in {<<"1">>, <<"2">>},
        t \in {<<"E", "e", "n", " ", "b", "o", "e", "r">>, <<>>}}

\* The description rows of the runs over several rows.
FewDescriptionRowsA ==
    {[RowA0 EXCEPT !.pi_record_no = i, !.owner_name = NamesAt("owner", OwnerPositions, P)] :
        i \in {<<"N", "-", "1">>, <<"N", "-", "2">>}, P \in {{}, {<<"owner", 1>>}}}
FewDescriptionRowsB ==
    {[RowB0 EXCEPT !.inventory_number = i, !.owner_name = o] :
        i \in {<<"1", "0", "0", "1">>, <<"1", "0", "0", "2">>}, o \in {<<>>, <<"T", "r", "i", "p">>}}

\* Archive name and location columns of dialect A: three spellings with the
\* same letters, an empty name, an empty location, two other archives, a
\* location with an accented letter.
ArchiveColumnsA ==
    {<<<<"G", "A">>, <<"A", "m", "s", "t", "e", "r", "d", "a", "m">>>>, <<<<"G", ".", "A", ".">>, <<"A", "m", "s", "t", "e", "r", "d", "a", "m">>>>, <<<<"G", "A", "A">>, <<"m", "s", "t", "e", "r", "d", "a", "m">>>>,
     <<<<>>, <<"A", "m", "s", "t", "e", "r", "d", "a", "m">>>>, <<<<"G", "A">>, <<>>>>, <<<<"G", "A">>, <<"A", "n", "t", "w", "e", "r", "p">>>>, <<<<"S", "A">>, <<"A", "m", "s", "t", "e", "r", "d", "a", "m">>>>,
     <<<<"G", "A">>, <<"L", "i", "è", "g", "e">>>>}

\* The description rows of the runs about archives and books.
ArchiveRowsA ==
    {[RowA0 EXCEPT !.pi_record_no = i, !.archive_name = a[1], !.archive_loc = a[2],
                   !.archive_doc_no = d] :
        i \in {<<"N", "-", "1">>, <<"N", "-", "2">>}, a \in ArchiveColumnsA, d \in {<<>>, <<"N", "A", "A", " ", "7">>}}
ArchiveRowsB ==
    {[RowB0 EXCEPT !.inventory_number = i, !.archive = a, !.call_number = c] :
        i \in {<<"1", "0", "0", "1">>, <<"1", "0", "0", "2">>}, a \in {<<>>, <<"G", "A", "A">>, <<"G", ".", "A", ".", "A", ".">>, <<"S", "A", "A">>},
        c \in {<<>>, <<"N", "A", " ", "7", "7">>}}

\* The rows of the runs about the order of the rows: descriptions that share
\* an archive and a book, items that share an inventory, and a description
\* whose record number makes its Inventory IRI the IRI of an Item.
OrderDescriptionRowsA ==
    {[RowA0 EXCEPT !.pi_record_no = i, !.archive_name = n, !.archive_loc = <<"A", "m", "s", "t", "e", "r", "d", "a", "m">>,
                   !.archive_doc_no = <<"N", "A", "A", " ", "7">>] :
        i \in {<<"N", "-", "1">>, <<"N", "-", "2">>, <<"I", "t", "e", "m", "/", "N", "-", "1", "_", "0", "0", "0", "1">>},
        n \in {<<"G", "A">>, <<"G", ".", "A", ".">>}}
OrderDescriptionRowsB ==
    {[RowB0 EXCEPT !.inventory_number = i, !.archive = n, !.call_number = <<"N", "A", " ", "7", "7">>] :
        i \in {<<"1", "0", "0", "1">>, <<"1", "0", "0", "2">>}, n \in {<<"G", "A", "A">>, <<"G", ".", "A", ".", "A", ".">>}}
OrderItemRowsA ==
    {[ItemRowA0 EXCEPT !.assigned_item_no = n, !.title = t] :
        n \in {<<"1">>, <<"0", "1">>}, t \in {<<"E", "e", "n", " ", "b", "o", "e", "r">>, <<>>}}
OrderItemRowsB ==
    {[ItemRowB0 EXCEPT !.assigned_item_no = n, !.title = t] :
        n \in {<<"1">>, <<"2">>}, t \in {<<"E", "e", "n", " ", "b", "o", "e", "r">>, <<>>}}

(***************************************************************************)
(* Specifications                                                          *)
(***************************************************************************)

NoRow == [none |-> TRUE]

LinkageIdle ==
    /\ pc = "idle" /\ done = <<>> /\ linkset = <<>> /\ keys = <<>>
    /\ printed = <<>> /\ outfile = <<>>

GraphIdle ==
    /\ prog = "none" /\ phase = "idle" /\ g = {} /\ last = "none"
    /\ row = NoRow /\ added = {} /\ nrows = 0

\* matching.py: main at line 44, before the first row.
Init ==
    /\ pc = "main"
    /\ done = <<>>
    /\ linkset = <<>>
    /\ keys = <<>>
    /\ printed = <<>>
    /\ outfile = <<>>
    /\ GraphIdle

Next ==
    \/ \E r \in CandidateRows : ProcessRow(r)
    \/ Return
    \/ BuildLinkset

\* The record linkage engine and the linkset emitter.
Spec == Init /\ [][Next]_vars

\* A converter's main after the gazetteer labels were added, before the
\* first row: one of the three programs runs.
InitGraph ==
    /\ prog \in {"convert", "GPI", "Frick"}
    /\ phase = "descriptions"
    /\ g = GazetteerLabels
    /\ last = "none"
    /\ row = NoRow
    /\ added = {}
    /\ nrows = 0
    /\ LinkageIdle

\* A converter on a descriptions file of one row and an empty items file.
NextRow ==
    \/ \E r \in DescriptionRowsA : last = "none" /\ Convert_description2rdf(r)
    \/ \E r \in DescriptionRowsA : last = "none" /\ GPI_description2rdf(r)
    \/ \E r \in DescriptionRowsB : last = "none" /\ Frick_description2rdf(r)
    \/ EndDescriptions
    \/ EndItems

SpecRow == InitGraph /\ [][NextRow]_vars

\* A converter on files of at most MaxFileRows rows each.
NextGraph ==
    \/ \E r \in FewDescriptionRowsA : nrows < MaxFileRows /\ Convert_description2rdf(r)
    \/ \E r \in FewDescriptionRowsA : nrows < MaxFileRows /\ GPI_description2rdf(r)
    \/ \E r \in FewDescriptionRowsB : nrows < MaxFileRows /\ Frick_description2rdf(r)
    \/ EndDescriptions
    \/ \E r \in ItemRowsA : nrows < MaxFileRows /\ Convert_items2rdf(r)
    \/ \E r \in ItemRowsA : nrows < MaxFileRows /\ GPI_items2rdf(r)
    \/ \E r \in ItemRowsB : nrows < MaxFileRows /\ Frick_items2rdf(r)
    \/ EndItems

SpecGraph == InitGraph /\ [][NextGraph]_vars

\* A converter on a descriptions file of at most MaxFileRows rows that differ
\* in their archive and reference columns, and an empty items file.
NextArchive ==
    \/ \E r \in ArchiveRowsA : nrows < MaxFileRows /\ Convert_description2rdf(r)
    \/ \E r \in ArchiveRowsA : nrows < MaxFileRows /\ GPI_description2rdf(r)
    \/ \E r \in ArchiveRowsB : nrows < MaxFileRows /\ Frick_description2rdf(r)
    \/ EndDescriptions
    \/ EndItems

SpecArchive == InitGraph /\ [][NextArchive]_vars

\* A converter on files of at most MaxFileRows rows each, whose rows share
\* archives, books and items.
NextOrder ==
    \/ \E r \in OrderDescriptionRowsA : nrows < MaxFileRows /\ Convert_description2rdf(r)
    \/ \E r \in OrderDescriptionRowsA : nrows < MaxFileRows /\ GPI_description2rdf(r)
    \/ \E r \in OrderDescriptionRowsB : nrows < MaxFileRows /\ Frick_description2rdf(r)
    \/ EndDescriptions
    \/ \E r \in OrderItemRowsA : nrows < MaxFileRows /\ Convert_items2rdf(r)
    \/ \E r \in OrderItemRowsA : nrows < MaxFileRows /\ GPI_items2rdf(r)
    \/ \E r \in OrderItemRowsB : nrows < MaxFileRows /\ Frick_items2rdf(r)
    \/ EndItems

SpecOrder == InitGraph /\ [][NextOrder]_vars

(***************************************************************************)
(* Properties of the linkage engine and the emitter                        *)
(***************************************************************************)

\* The rows consumed so far.
DoneRows == {done[i] : i \in DOMAIN done}

\* A row that satisfies both conditions of the linkage rule, stated from the
\* specification: all fields present, score strictly above 0.8, act type in
\* the list of six.
Qualifies(r) ==
    /\ RowFields \subseteq DOMAIN r
    /\ r.p > 800
    /\ r.actType \in {"Boedelinventaris", "Boedelscheiding", "Testament",
                      "Overig", "Huwelijkse voorwaarden", "Kwitantie"}

QualifyingTriples(rows, inv) ==
    {<<r.dataset, r.record, r.actType>> : r \in {x \in rows : Qualifies(x) /\ x.inventory = inv}}

LinksOf(inv) == IF inv \in DOMAIN linkset THEN linkset[inv] ELSE {}

\* C1: after any sequence of rows the linkset holds, for every inventory,
\* exactly the (dataset, record, actType) triples of the rows whose score is
\* strictly above 0.8 and whose act type is whitelisted; a score of exactly
\* 0.8 and a non-whitelisted act type contribute nothing.
C1_LinksetIsExactlyQualifyingRows ==
    \A inv \in Inventories : LinksOf(inv) = QualifyingTriples(DoneRows, inv)

\* C1 witness: a Testament row scored exactly 0.800 was rejected, a Testament
\* row scored 0.801 was accepted, and main has returned.
C1_Witness ==
    /\ pc = "returned"
    /\ Len(done) = 2
    /\ RowFields \subseteq DOMAIN done[1] /\ RowFields \subseteq DOMAIN done[2]
    /\ done[1].p = 800 /\ done[1].actType = "Testament" /\ done[1].inventory = "N-100"
    /\ done[2].p = 801 /\ done[2].actType = "Testament" /\ done[2].inventory = "N-200"
    /\ DOMAIN linkset = {"N-200"}

\* C2: set semantics.  When main consumes a qualifying row whose inventory and
\* triple were already contributed by an earlier qualifying row, the linkset
\* does not change; when its triple is new for that inventory, the triple is
\* added, the triples already there are all kept and the other inventories
\* are untouched, so the set grows by exactly one.
C2_SetSemantics ==
    [][(pc' # "aborted" /\ Len(done') = Len(done) + 1 /\ Qualifies(done'[Len(done')])) =>
         LET r == done'[Len(done')]
             t == <<r.dataset, r.record, r.actType>>
             old == LinksOf(r.inventory)
         IN  IF t \in QualifyingTriples(DoneRows, r.inventory)
             THEN linkset' = linkset
             ELSE /\ linkset'[r.inventory] = old \cup {t}
                  /\ Cardinality(linkset'[r.inventory]) = Cardinality(old) + 1
                  /\ \A k \in DOMAIN linkset : k # r.inventory => linkset'[k] = linkset[k]
      ]_vars

\* C2 witness: two accepted rows carried the same inventory and triple and the
\* inventory holds the triple once.
C2_Witness ==
    /\ Len(done) = 2
    /\ Qualifies(done[1]) /\ Qualifies(done[2])
    /\ done[1].inventory = done[2].inventory
    /\ Triple(done[1]) = Triple(done[2])
    /\ Cardinality(linkset[done[1].inventory]) = 1

\* C3: while main processes rows, when it has returned and when the linkset
\* has been written, every key of the linkset maps to a non-empty set, and an
\* inventory none of whose rows qualified is not a key.  (After an uncaught
\* KeyError the local linkset is discarded with main's frame.)
C3_NoEmptyEntry ==
    pc \in {"main", "returned", "written"} =>
        /\ \A k \in DOMAIN linkset : linkset[k] # {}
        /\ \A inv \in Inventories :
              QualifyingTriples(DoneRows, inv) = {} => inv \notin DOMAIN linkset

\* C3 witness: main returned after two rows of inventory N-100, one rejected
\* by the threshold and one by the whitelist, and the linkset has no key.
C3_Witness ==
    /\ pc = "returned"
    /\ Len(done) = 2
    /\ \A i \in 1..2 : RowFields \subseteq DOMAIN done[i] /\ done[i].inventory = "N-100"
    /\ done[1].p = 800 /\ done[1].actType = "Testament"
    /\ done[2].p = 950 /\ done[2].actType = "Unknown"
    /\ DOMAIN linkset = {}

\* A row that lacks one of the required fields.
Defective(r) == ~(RowFields \subseteq DOMAIN r)

\* C4 (the claim as stated): a row that lacks a required field is skipped and
\* the batch goes on; main never ends in an uncaught error.
C4_DefectiveRowIsSkipped ==
    (\E i \in DOMAIN done : Defective(done[i])) => pc # "aborted"

\* C5: once buildLinkset has written the file, after the prefix line there
\* are exactly two statements per member of every inventory's set: for every
\* inventory and record, the record-to-inventory statement and the
\* inventory-to-record statement each occur as often as the inventory has
\* members with that record (never for a pair not in the linkset), and the
\* file holds nothing else, so nothing in it depends on dataset or actType.
C5_TwoStatementsPerMember ==
    pc = "written" =>
        LET Occ(x) == Cardinality({i \in DOMAIN outfile : outfile[i] = x})
            Members(inv, rec) == {m \in LinksOf(inv) : m[2] = rec}
            Total == Cardinality(UNION {{<<inv, m>> : m \in LinksOf(inv)} : inv \in Inventories})
        IN  /\ outfile[1] = PrefixLine
            /\ Len(outfile) = 1 + 2 * Total
            /\ \A inv \in Inventories, rec \in Records :
                  /\ Occ([s |-> rec, p |-> "saa:inventory", o |-> inv])
                        = Cardinality(Members(inv, rec))
                  /\ Occ([s |-> inv, p |-> "saa:isInRecord", o |-> rec])
                        = Cardinality(Members(inv, rec))

\* C5 witness: the file was written for an inventory holding two members that
\* share a record and differ in dataset: four statements follow the prefix.
C5_Witness ==
    /\ pc = "written"
    /\ "N-100" \in DOMAIN linkset
    /\ \E m1, m2 \in linkset["N-100"] : m1[2] = m2[2] /\ m1[1] # m2[1]
    /\ Len(outfile) = 5

(***************************************************************************)
(* Properties of the graph builders                                        *)
(***************************************************************************)

\* The objects of the triples with predicate pred among the triples T.
Objects(T, pred) == {t[3] : t \in {x \in T : x[2] = pred}}

\* n as two decimal digits, for 0 <= n <= 99.
TwoDigits(n) == <<DigitChars[(n \div 10) + 1], DigitChars[(n % 10) + 1]>>

\* The lengths of the months of a common year.
MonthLengths == <<31, 28, 31, 30, 31, 30, 31, 31, 30, 31, 30, 31>>

\* Whether year, month and day name a day of the calendar.
IsCalendarDay(y, m, d) ==
    /\ y \in 1..9999
    /\ m \in 1..12
    /\ d >= 1
    /\ d <= MonthLengths[m] + (IF m = 2 /\ (y % 400 = 0 \/ (y % 4 = 0 /\ y % 100 # 0)) THEN 1 ELSE 0)

\* Whether three source columns hold the numbers of a day of the calendar.
ColumnsParse(ys, ms, ds) ==
    /\ ParseInt(ys).ok /\ ParseInt(ms).ok /\ ParseInt(ds).ok
    /\ IsCalendarDay(ParseInt(ys).val, ParseInt(ms).val, ParseInt(ds).val)

\* The ISO form of the day the three columns name.
IsoOf(ys, ms, ds) ==
    IntToStr(ParseInt(ys).val) \o <<"-">> \o TwoDigits(ParseInt(ms).val)
        \o <<"-">> \o TwoDigits(ParseInt(ds).val)

\* C6: for a row of convert.py or convertGPI.py, the registration date that
\* description2rdf emits is the begin date when the begin columns parse
\* (whether or not the end columns do), the end date when only the end
\* columns parse, and no registration date is emitted when neither parses.
C6_RegistrationDateRule ==
    (last = "description" /\ prog \in {"convert", "GPI"}) =>
        LET beginOk == ColumnsParse(row.begin_date_year, row.begin_date_month, row.begin_date_day)
            endOk == ColumnsParse(row.end_date_year, row.end_date_month, row.end_date_day)
            beginIso == IsoOf(row.begin_date_year, row.begin_date_month, row.begin_date_day)
            endIso == IsoOf(row.end_date_year, row.end_date_month, row.end_date_day)
            registered == Objects(added, "saa:registrationDate")
        IN  /\ beginOk => registered = {DateLiteral(beginIso)}
                          /\ Objects(added, "saa:beginDate") = registered
            /\ (~beginOk /\ endOk) => registered = {DateLiteral(endIso)}
                                      /\ Objects(added, "saa:endDate") = registered
            /\ (~beginOk /\ ~endOk) => registered = {}

\* C6 witness: begin 1684-10-04 and end 1685-01-01 both parsed, and the
\* registration date is the begin date.
C6_Witness ==
    /\ last = "description" /\ prog = "GPI"
    /\ row.begin_date_year = <<"1", "6", "8", "4">> /\ row.begin_date_month = <<"1", "0">>
    /\ row.begin_date_day = <<"4">>
    /\ Objects(added, "saa:endDate") = {DateLiteral(<<"1", "6", "8", "5", "-", "0", "1", "-", "0", "1">>)}
    /\ Objects(added, "saa:registrationDate") = {DateLiteral(<<"1", "6", "8", "4", "-", "1", "0", "-", "0", "4">>)}

\* Whether a lexical form is year-month-day of a day of the calendar.
IsCalendarDate(lex) ==
    \E i, j \in DOMAIN lex :
        /\ i < j /\ lex[i] = "-" /\ lex[j] = "-"
        /\ ColumnsParse(SubSeq(lex, 1, i - 1), SubSeq(lex, i + 1, j - 1),
                        SubSeq(lex, j + 1, Len(lex)))

\* C7 (the claim as stated): in every dialect's description builder an empty
\* or unparseable date is treated as absent, so every begin, end or
\* registration date statement emitted for a row carries a calendar date.
C7_UnparseableDateIsAbsent ==
    last = "description" =>
        \A t \in added :
            t[2] \in {"saa:beginDate", "saa:endDate", "saa:registrationDate"}
                => IsCalendarDate(t[3].v)

\* The name columns of a dialect A row that are not empty.
FilledSlots(r) ==
    {s \in NameSlots :
        \/ s[1] = "owner" /\ r.owner_name[s[2]] # <<>>
        \/ s[1] = "beneficiary" /\ r.benef_name[s[2]] # <<>>
        \/ s[1] = "appraiser" /\ r.appraiser[s[2]] # <<>>}

\* The role name as it is spelled in an identifier.
RoleSpelled(role) ==
    IF role = "owner" THEN <<"o", "w", "n", "e", "r">>
    ELSE IF role = "beneficiary" THEN <<"b", "e", "n", "e", "f", "i", "c", "i", "a", "r", "y">>
    ELSE <<"a", "p", "p", "r", "a", "i", "s", "e", "r">>

\* The nodes typed saa:Person among the triples T.
PersonNodes(T) == {t[1] : t \in {x \in T : x[2] = "rdf:type" /\ x[3] = Vocab("saa:Person")}}

\* C8: the persons description2rdf makes for a row are identified by the
\* record identifier, the role name and the position as two digits, and the
\* identifiers of distinct (role, position) pairs of the row differ: there
\* are as many person nodes as non-empty name columns (owner 1..5,
\* beneficiary 1..12, appraiser 1..14; dialect B has the one owner, 01).
C8_PersonIdentifiers ==
    last = "description" =>
        IF prog = "Frick"
        THEN PersonNodes(added) =
                (IF row.owner_name # <<>>
                 THEN {URIRef("saaPerson", row.inventory_number \o <<"o", "w", "n", "e", "r", "0", "1">>)} ELSE {})
        ELSE /\ PersonNodes(added) =
                    {URIRef("saaPerson", row.pi_record_no \o RoleSpelled(s[1]) \o TwoDigits(s[2])) :
                        s \in FilledSlots(row)}
             /\ Cardinality(PersonNodes(added)) = Cardinality(FilledSlots(row))

\* C8 witness: a row with all 31 name columns filled made 31 person nodes.
C8_Witness ==
    /\ last = "description" /\ prog = "convert"
    /\ FilledSlots(row) = NameSlots
    /\ Cardinality(PersonNodes(added)) = 31

\* The nodes typed saa:Item in the graph.
ItemNodes == {t[1] : t \in {x \in g : x[2] = "rdf:type" /\ x[3] = Vocab("saa:Item")}}

\* C9 (the claim as stated): item rows of one inventory with distinct index
\* values get distinct Item identifiers, so no Item node of one inventory
\* carries two different index values.
C9_DistinctIndicesDistinctItems ==
    \A item \in ItemNodes :
        Cardinality({t[3] : t \in {x \in g : x[1] = item /\ x[2] = "saa:isInRecord"}}) = 1
            => Cardinality({t[3] : t \in {x \in g : x[1] = item /\ x[2] = "saa:index"}}) <= 1

\* Whether pre occurs in s at position i.
HasAt(s, i, pre) == i + Len(pre) - 1 <= Len(s) /\ SubSeq(s, i, i + Len(pre) - 1) = pre

\* The positions of a document reference where "NAA " or "GAA NA " occurs.
PrefixStarts(doc) == {i \in 1..Len(doc) : HasAt(doc, i, <<"N", "A", "A", " ">>) \/ HasAt(doc, i, <<"G", "A", "A", " ", "N", "A", " ">>)}

\* The token after the first such prefix, up to the next space, comma or
\* closing parenthesis (or the end), uppercased.
ExpectedBookA(doc) ==
    LET i == CHOOSE k \in PrefixStarts(doc) : \A j \in PrefixStarts(doc) : k <= j
        from == IF HasAt(doc, i, <<"N", "A", "A", " ">>) THEN i + 4 ELSE i + 7
        Ends(j) == j = Len(doc) + 1 \/ doc[j] \in {" ", ",", ")"}
        to == CHOOSE j \in from..(Len(doc) + 1) :
                  Ends(j) /\ \A k \in from..(j - 1) : ~Ends(k)
    IN  Upper(SubSeq(doc, from, to - 1))

\* C10: for a row of convert.py or convertGPI.py, a book number and a
\* documentedIn relation are emitted only if the archive location contains
\* "Amsterdam"; when it does and the document reference holds "NAA " or
\* "GAA NA ", the book number is the token after the first such prefix, cut
\* before the next space, comma or ")", uppercased, and the inventory is
\* documented in the book of that number.
C10_ReferenceParsingA ==
    (last = "description" /\ prog \in {"convert", "GPI"}) =>
        LET doc == row.archive_doc_no
            inAmsterdam == \E i \in 1..Len(row.archive_loc) : HasAt(row.archive_loc, i, <<"A", "m", "s", "t", "e", "r", "d", "a", "m">>)
            numbers == {t[3].v : t \in {x \in added : x[2] = "saa:inventoryNumber"}}
            documented == {t \in added : t[2] = "saa:documentedIn"}
        IN  IF inAmsterdam /\ PrefixStarts(doc) # {}
            THEN /\ numbers = {ExpectedBookA(doc)}
                 /\ documented =
                       {<<URIRef("saaInventory", row.pi_record_no), "saa:documentedIn",
                          BNode(<<"s", "a", "a", "I", "n", "v", "e", "n", "t", "o", "r", "y">> \o ExpectedBookA(doc))>>}
            ELSE numbers = {} /\ documented = {}

\* C10 witness: location "Amsterdam", reference "NAA 2413 (film 2552)", and
\* the book number emitted is "2413".
C10_Witness ==
    /\ last = "description" /\ prog = "convert"
    /\ row.archive_loc = <<"A", "m", "s", "t", "e", "r", "d", "a", "m">>
    /\ row.archive_doc_no = <<"N", "A", "A", " ", "2", "4", "1", "3", " ", "(", "f", "i", "l", "m", " ", "2", "5", "5", "2", ")">>
    /\ {t[3].v : t \in {x \in added : x[2] = "saa:inventoryNumber"}} = {<<"2", "4", "1", "3">>}

\* The positions of a call number where two adjacent digits start.
DigitPairs(ref) == {i \in 1..(Len(ref) - 1) : IsDigit(ref[i]) /\ IsDigit(ref[i + 1])}

\* Whether a call number holds one of the substrings "WK", "DBK", "boedel".
OtherScheme(ref) ==
    \E i \in 1..Len(ref) : HasAt(ref, i, <<"W", "K">>) \/ HasAt(ref, i, <<"D", "B", "K">>) \/ HasAt(ref, i, <<"b", "o", "e", "d", "e", "l">>)

\* The first run of 2 to 5 digits of a call number, with the letter A or B
\* that follows it directly or after one space.
ExpectedBookB(ref) ==
    LET q == CHOOSE i \in DigitPairs(ref) : \A j \in DigitPairs(ref) : i <= j
        AllDigits(k) == q + k - 1 <= Len(ref) /\ \A j \in q..(q + k - 1) : IsDigit(ref[j])
        n == CHOOSE k \in 2..5 : AllDigits(k) /\ \A m \in (k + 1)..5 : ~AllDigits(m)
        after == q + n
        letter == IF after <= Len(ref) /\ ref[after] = " " THEN after + 1 ELSE after
    IN  SubSeq(ref, q, q + n - 1)
            \o (IF letter <= Len(ref) /\ ref[letter] \in {"A", "B"} THEN <<ref[letter]>> ELSE <<>>)

\* Whether a book number is 2 to 5 digits, optionally followed by A or B.
IsBookNumberB(num) ==
    \E n \in 2..5 :
        /\ Len(num) \in {n, n + 1}
        /\ \A j \in 1..n : IsDigit(num[j])
        /\ Len(num) = n + 1 => num[n + 1] \in {"A", "B"}

\* C11: for a row of convertFrick.py, a call number holding "WK", "DBK" or
\* "boedel" gives no InventoryBook and no documentedIn relation; otherwise
\* the book number is the first match of optional "NA", optional space, 2 to
\* 5 digits, optional space, optional A or B, with the space removed, so each
\* emitted book number is 2 to 5 digits optionally followed by one A or B.
C11_ReferenceParsingB ==
    (last = "description" /\ prog = "Frick") =>
        LET ref == row.call_number
            numbers == {t[3].v : t \in {x \in added : x[2] = "saa:inventoryNumber"}}
            books == {t[1] : t \in {x \in added : x[2] = "rdf:type" /\ x[3] = Vocab("saa:InventoryBook")}}
            documented == {t \in added : t[2] = "saa:documentedIn"}
        IN  IF OtherScheme(ref) \/ DigitPairs(ref) = {}
            THEN numbers = {} /\ books = {} /\ documented = {}
            ELSE /\ numbers = {ExpectedBookB(ref)}
                 /\ IsBookNumberB(ExpectedBookB(ref))
                 /\ books = {BNode(<<"s", "a", "a", "I", "n", "v", "e", "n", "t", "o", "r", "y">> \o ExpectedBookB(ref))}
                 /\ documented =
                       {<<URIRef("saaInventory", row.inventory_number), "saa:documentedIn",
                          BNode(<<"s", "a", "a", "I", "n", "v", "e", "n", "t", "o", "r", "y">> \o ExpectedBookB(ref))>>}

\* C11 witness: the call number "NA 1234 A" gave the book number "1234A".
C11_Witness ==
    /\ last = "description" /\ prog = "Frick"
    /\ row.call_number = <<"N", "A", " ", "1", "2", "3", "4", " ", "A">>
    /\ {t[3].v : t \in {x \in added : x[2] = "saa:inventoryNumber"}} = {<<"1", "2", "3", "4", "A">>}

\* The nodes typed saa:Archive among the triples T.
ArchiveNodes(T) == {t[1] : t \in {x \in T : x[2] = "rdf:type" /\ x[3] = Vocab("saa:Archive")}}

\* The archive name and location columns of a description row.
ArchiveNameOf(r) == IF "archive" \in DOMAIN r THEN r.archive ELSE r.archive_name
ArchiveLocOf(r) == IF "archive" \in DOMAIN r THEN <<>> ELSE r.archive_loc

\* A string without its characters that are not ASCII letters.
LettersOnly(s) == SelectSeq(s, LAMBDA c : c \in AsciiLetters)

\* The alphabetic characters up to U+00FF: the letters a-z and A-Z, the
\* ordinal indicators, the micro sign and the accented letters.
Alphabetic ==
    AsciiLetters \cup
        {"ª", "µ", "º", "À", "Á", "Â", "Ã", "Ä", "Å", "Æ", "Ç", "È", "É", "Ê",
         "Ë", "Ì", "Í", "Î", "Ï", "Ð", "Ñ", "Ò", "Ó", "Ô", "Õ", "Ö", "Ø", "Ù",
         "Ú", "Û", "Ü", "Ý", "Þ", "ß", "à", "á", "â", "ã", "ä", "å", "æ", "ç",
         "è", "é", "ê", "ë", "ì", "í", "î", "ï", "ð", "ñ", "ò", "ó", "ô", "õ",
         "ö", "ø", "ù", "ú", "û", "ü", "ý", "þ", "ÿ"}
AlphabeticOnly(s) == SelectSeq(s, LAMBDA c : c \in Alphabetic)

\* C12 as stated: a description row with an archive name gives the Archive
\* node whose identifier is exactly the alphabetic characters of name
\* followed by location, so that rows equal in their alphabetic characters
\* share one node.
C12_AlphabeticIdentifier ==
    [][(last' = "description" /\ nrows' = nrows + 1 /\ ArchiveNameOf(row') # <<>>) =>
         LET a == BNode(AlphabeticOnly(ArchiveNameOf(row') \o ArchiveLocOf(row')))
         IN  /\ ArchiveNodes(added') = {a}
             /\ ArchiveNodes(g') = ArchiveNodes(g) \cup {a}
      ]_vars

\* C12, amended: a description row with a non-empty archive name gives the
\* Archive node whose identifier is exactly the ASCII letters (a-z, A-Z) of
\* name followed by location, so the Archive nodes of the graph after the
\* row are those before it and that one: a row whose ASCII letters equal
\* those of an earlier row adds no node.  A row without an archive name adds
\* no Archive node.
C12_ArchiveDeduplication ==
    [][(last' = "description" /\ nrows' = nrows + 1) =>
         LET a == BNode(LettersOnly(ArchiveNameOf(row') \o ArchiveLocOf(row')))
         IN  IF ArchiveNameOf(row') # <<>>
             THEN /\ ArchiveNodes(added') = {a}
                  /\ ArchiveNodes(g') = ArchiveNodes(g) \cup {a}
             ELSE ArchiveNodes(added') = {} /\ ArchiveNodes(g') = ArchiveNodes(g)
      ]_vars

\* C12 witness: two rows whose archive strings differ but have the same
\* letters were processed and the graph holds one Archive node.
C12_Witness ==
    /\ last = "description" /\ nrows = 2
    /\ Cardinality(ArchiveNodes(g)) = 1
    /\ Cardinality({t[3] : t \in {x \in g : x[1] \in ArchiveNodes(g) /\ x[2] \in {"rdfs:label", "saa:location"}}}) >= 3

\* Rows a file of the running program may hold besides those processed.
OtherRows(kind) ==
    IF kind = "description"
    THEN (IF prog = "Frick" THEN OrderDescriptionRowsB ELSE OrderDescriptionRowsA)
    ELSE (IF prog = "Frick" THEN OrderItemRowsB ELSE OrderItemRowsA)

\* The nodes the statements T describe.
Subjects(T) == {t[1] : t \in T}

\* The Inventory nodes among the subjects of the statements T.
InventoriesOf(T) == {t[1] : t \in {x \in T : x[2] = "rdf:type" /\ x[3] = Vocab("saa:Inventory")}}

\* C13 (the claim as stated): the graph does not depend on the order of the
\* rows, and rows meet in Archive nodes only.  Whenever a row is processed,
\* (1) processing the row a second time changes nothing, (2) processing any
\* other description or item row before it instead of after it gives the
\* same graph, and (3) when it is a description row whose record identifier
\* no earlier row had, the only nodes it describes that the graph already
\* described are Archive nodes.
C13_NoOrderingDependency ==
    [][nrows' = nrows + 1 =>
         /\ GraphAdd(g', HandlerTriples(prog, last', row')) = g'
         /\ \A kind \in {"description", "item"} : \A r \in OtherRows(kind) :
               GraphAdd(GraphAdd(g, HandlerTriples(prog, kind, r)), HandlerTriples(prog, last', row'))
                   = GraphAdd(g', HandlerTriples(prog, kind, r))
         /\ (last' = "description" /\ InventoriesOf(added') \cap InventoriesOf(g) = {})
               => (Subjects(added') \cap Subjects(g)) \subseteq ArchiveNodes(g')
      ]_vars

\* C14 (the claim as stated): an empty name or title is a skip signal, so the
\* graph never holds a Person node or an Item node whose label is the empty
\* string.
C14_NoEntityWithEmptyLabel ==
    \A node \in PersonNodes(g) \cup ItemNodes :
        \A t \in g : (t[1] = node /\ t[2] = "rdfs:label") => t[3].v # <<>>

\* The InventoryBook nodes of the graph: the nodes that carry a book number.
BookNodes == {t[1] : t \in {x \in g : x[2] = "saa:inventoryNumber"}}

\* The Inventory nodes of the graph.
InventoryNodes == {t[1] : t \in {x \in g : x[2] = "rdf:type" /\ x[3] = Vocab("saa:Inventory")}}

\* The objects of the triples of the graph with subject s and predicate pred.
ValuesOf(s, pred) == {t[3] : t \in {x \in g : x[1] = s /\ x[2] = pred}}

\* C15 (the claim as stated, on files whose source identifiers are unique):
\* after any sequence of description rows with distinct identifiers, every
\* InventoryBook is held by at most one Archive, and every Inventory is
\* documented in at most one InventoryBook and held in at most one Archive.
C15_BookHeldByAtMostOneArchive ==
    (phase = "descriptions" /\ Cardinality(InventoryNodes) = nrows) =>
        /\ \A book \in BookNodes : Cardinality(ValuesOf(book, "saa:heldBy")) <= 1
        /\ \A inv \in InventoryNodes :
              /\ Cardinality(ValuesOf(inv, "saa:documentedIn")) <= 1
              /\ Cardinality(ValuesOf(inv, "saa:archive")) <= 1

\* C17 (the claim as stated, on files whose source identifiers are unique):
\* after any sequence of description rows every Archive node carries exactly
\* one label and at most one location.
C17_ArchiveIsImmutable ==
    (phase = "descriptions" /\ Cardinality(InventoryNodes) = nrows) =>
        \A a \in ArchiveNodes(g) :
            /\ Cardinality(ValuesOf(a, "rdfs:label")) = 1
            /\ Cardinality(ValuesOf(a, "saa:location")) <= 1

\* C16 (the claim as stated): on rows that have every column, main prints a
\* diagnostic line for a row only if the row's triple is added to the
\* linkset, so there are never more printed lines than accepted rows.
C16_DiagnosticsOnlyForAcceptedLinks ==
    (\A i \in DOMAIN done : ~Defective(done[i])) =>
        Len(printed) <= Cardinality({i \in DOMAIN done : Qualifies(done[i])})

\* C18 (the claim as stated): whenever a dialect A builder emits an
\* InventoryBook for a row, the book's inventoryNumber is a non-empty string.
C18_BookNumberIsNotEmpty ==
    (last = "description" /\ prog \in {"convert", "GPI"}) =>
        \A t \in added : t[2] = "saa:inventoryNumber" => t[3].v # <<>>

====
